---- MODULE Spec2Model ----
(***************************************************************************)
(* Live transcription tool: the chunk dispatch queue of useAudioCapture,   *)
(* the transcription callback of the page, and the transcript editor       *)
(* (appendText and the UneditedMark reclassification plugin), and the     *)
(* voice-activity segmenter of the audio worklet (AudioVADProcessor).      *)
(*                                                                         *)
(* The document is a single paragraph of inline text.  A position p is a   *)
(* ProseMirror position: 0 is before the paragraph, character i occupies   *)
(* [i, i+1), and doc.content.size = Len(doc) + 2.  A text node is a        *)
(* maximal run of characters carrying the same mark set.                   *)
(***************************************************************************)
EXTENDS Integers, Sequences, FiniteSets, Bags, TLC

\* ------------------------------------------------------------------ bounds
MaxNow == 6000
TickMs == 1000
MaxChunks == 3
MaxStarts == 2
MaxDocLen == 3
\* the worklet: length of one render quantum in ms and in samples, and the
\* last value of currentTime
FrameMs == 500
FrameSamples == 2
MaxCurrentTime == 4000
\* the speech indicator: step and last value of the timer clock (ms), and
\* the number of timers one run may set
TimerTickMs == 50
MaxTimerClock == 400
MaxTimers == 4
MaxCalls == 2
MaxTextLen == 3
MaxSpeakerId == 2
MaxSegmentsMade == 2
StorageTickMs == 250
MaxStorageClock == 1500
MaxTimeouts == 4
MaxStoredValue == 2

\* ------------------------------------------------------- program constants
SILENCE_DURATION_MS == 1000
MIN_CHUNK_DURATION_MS == 2000
MAX_CHUNK_DURATION_MS == 10000
\* AudioVADProcessor's constructor; levels are in thousandths of full scale
DefaultSpeechThreshold == 20
DefaultSilenceDurationMs == 1500
DefaultMinChunkDurationMs == 3000
DefaultMaxChunkDurationMs == 30000
DefaultMaxBufferSizeBytes == 10485760
bytesPerSample == 4
\* the delay of the speech indicator's setTimeout
SpeechDebounceMs == 150
\* debounceMs of useLocalStorage
debounceMs == 500

VARIABLES
  \* useAudioCapture refs and state
  \* (processorRef is the number of the startRecording call that created
  \* the processor, 0 for null; audioBuffer is the bag of buffered input
  \* blocks, each named by the processor that delivered it)
  isRecording, error, processorRef, audioBuffer,
  streamRef, audioContextRef, sourceRef,
  onAudioChunkRef, isProcessingRef, pendingChunksRef,
  lastSpeechTimeRef, chunkStartTimeRef,
  \* environment of the hook
  clock, starting, liveProcessors, inflight,
  \* page state
  recordingStartTimeRef, viewMode, segments,
  \* editor state: the document and selection of the TipTap editor, and
  \* what useEditor returns (null until the editor is created, and again
  \* once the component is unmounted)
  doc, selection, editor,
  \* AudioVADProcessor fields, the worklet's currentTime (ms) and the
  \* messages the last step posted on its port
  speechThreshold, silenceDurationMs, minChunkDurationMs, maxChunkDurationMs,
  maxBufferSizeBytes, vadAudioBuffer, chunkStartTime, lastSpeechTime,
  chunkHasSpeech, currentTime, port,
  \* the debounced speech indicator: the two refs, the hasSpeech state the
  \* page renders, the browser's pending timeouts, its clock (ms), the
  \* number of the next timeout and the time of the last raw change
  lastSpeechStateRef, speechDebounceTimerRef, publishedHasSpeech, timers,
  timerClock, nextTimer, rawChangedAt,
  \* useWhisperTranscription: the worker ref, the loading flags, the error
  \* state, whether the component is mounted, the promise of every
  \* transcribe call so far and the number of Worker objects constructed
  workerRef, isModelLoading, isModelLoaded, whisperError, mounted, promises,
  workersCreated,
  \* the whisper worker: the three static handles of WhisperPipeline (null,
  \* or the number of the from_pretrained round that made them), the number
  \* of such rounds, the messages on their way in either direction, the
  \* listener invocations awaiting their model call, and the calls the
  \* worker has answered, in order
  tokenizer, processor, model, fromPretrained, toWorker, toMain, running,
  answered,
  \* the page's speaker list and the segments of the segments view (id and
  \* speaker of each, 0 for a null speaker), and the number of segments made
  speakers, segmentList, segmentsMade,
  \* useLocalStorage: the state, the item under the key in localStorage,
  \* the pending timeouts of the save effect, the timeoutId its cleanup
  \* holds (0 before the first effect), the time (ms), the id of the next
  \* timeout, the time of the last change of the state, and whether the
  \* last save callback ended in its catch block
  storedValue, localStorageItem, storageTimers, timeoutId, storageClock,
  nextTimeoutId, storedChangedAt, saveThrew,
  \* history of the run
  invoked, nextChunk, starts, last

hookVars == <<isRecording, error, processorRef, audioBuffer, onAudioChunkRef,
              lastSpeechTimeRef, chunkStartTimeRef, starting, liveProcessors,
              streamRef, audioContextRef, sourceRef>>
queueVars == <<isProcessingRef, pendingChunksRef, inflight, invoked, nextChunk>>
pageVars == <<recordingStartTimeRef, viewMode, segments>>
editorVars == <<doc, selection, editor>>
vadConfig == <<speechThreshold, silenceDurationMs, minChunkDurationMs,
               maxChunkDurationMs, maxBufferSizeBytes>>
vadVars == <<vadConfig, vadAudioBuffer, chunkStartTime, lastSpeechTime,
             chunkHasSpeech, currentTime, port>>
debounceVars == <<lastSpeechStateRef, speechDebounceTimerRef, publishedHasSpeech,
                  timers, timerClock, nextTimer, rawChangedAt>>
whisperVars == <<workerRef, isModelLoading, isModelLoaded, whisperError,
                 mounted, promises, workersCreated>>
workerVars == <<tokenizer, processor, model, fromPretrained, toWorker, toMain,
                running, answered>>
speakerVars == <<speakers, segmentList, segmentsMade>>
storageVars == <<storedValue, localStorageItem, storageTimers, timeoutId,
                 storageClock, nextTimeoutId, storedChangedAt, saveThrew>>
appVars == <<whisperVars, workerVars, speakerVars, storageVars>>
vars == <<hookVars, queueVars, pageVars, editorVars, vadVars, debounceVars,
          appVars, clock, starts, last>>

Null == "null"
\* onAudioChunkRef.current === null
NoCallback == [viewMode |-> "none"]
Min(a, b) == IF a < b THEN a ELSE b
Max(a, b) == IF a > b THEN a ELSE b

\* ============================================================== the editor

NoMarks == {}
UneditedMark(e, t) == {[edited |-> e, time |-> t]}

Char(c, m) == [ch |-> c, marks |-> m]

\* a timestampNode: an inline atom of size 1 with a time attribute and no text
TimestampNode(t) == [ch |-> "[t]", marks |-> NoMarks, time |-> t]

\* node.isText, for the node that holds element c
IsText(c) == "time" \notin DOMAIN c

\* state.doc.content.size for a document of one paragraph
ContentSize(d) == Len(d) + 2

IsSpace(c) == c = " "

\* state.doc.textContent.length > 0, without the trim
HasContentNoTrim(d) == Len(d) > 0

\* state.doc.textContent.trim().length > 0
HasContent(d) == \E i \in 1..Len(d) : IsText(d[i]) /\ ~IsSpace(d[i].ch)

\* ResolvedPos.marks(): the marks a character inserted at p inherits
MarksAt(d, p) ==
  IF Len(d) = 0 THEN NoMarks
  ELSE IF p > 1 THEN d[p - 1].marks ELSE d[1].marks

\* elements i and j belong to one text node
SameNode(d, i, j) == IsText(d[i]) /\ IsText(d[j]) /\ d[i].marks = d[j].marks

\* position of the start / end of the node holding element i
RECURSIVE NodeStart(_, _)
NodeStart(d, i) ==
  IF i > 1 /\ SameNode(d, i - 1, i) THEN NodeStart(d, i - 1) ELSE i

RECURSIVE NodeEnd(_, _)
NodeEnd(d, i) ==
  IF i < Len(d) /\ SameNode(d, i + 1, i) THEN NodeEnd(d, i + 1) ELSE i + 1

\* doc.nodesBetween(from, to, f): f is called on the text node of
\* character i iff the node starts before `to` and ends after `from`
Visited(d, from, to, i) == NodeStart(d, i) < to /\ NodeEnd(d, i) > from

\* a reclassification that re-creates the mark with the default time (null)
FlipBetweenLoseTime(src, d, from, to) ==
  [i \in 1..Len(d) |->
     IF /\ NodeStart(src, i) < to /\ NodeEnd(src, i) > from
        /\ \E m \in src[i].marks : m.edited = FALSE
     THEN Char(d[i].ch, {[edited |-> TRUE, time |-> -1]})
     ELSE d[i]]

\* removeMark + addMark({edited: true, time}) on every visited text node
\* whose unedited mark has edited === false
FlipBetween(src, d, from, to) ==
  [i \in 1..Len(d) |->
     IF /\ Visited(src, from, to, i)
        /\ \E m \in src[i].marks : m.edited = FALSE
     THEN Char(d[i].ch,
               {[edited |-> TRUE, time |-> m.time] : m \in src[i].marks})
     ELSE d[i]]

SelFrom(s) == Min(s.anchor, s.head)
SelTo(s) == Max(s.anchor, s.head)
Cursor(p) == [anchor |-> p, head |-> p]

\* The passes of the uneditedUpdater plugin.  tr describes the dispatched transaction:
\* its preventUneditedRemoval meta, whether a step changed the document,
\* and the (newStart, newEnd) ranges of its step maps.
Reclassify(tr, oldSel, newSel, newDoc) ==
  LET selectionChanged == oldSel # newSel
      afterSel == IF selectionChanged
                  THEN FlipBetween(newDoc, newDoc, SelFrom(newSel), SelTo(newSel))
                  ELSE newDoc
      changedFrom == tr.ranges[1]
      changedTo == tr.ranges[2]
  IN IF tr.docChanged /\ tr.hasRange
     THEN FlipBetween(newDoc, afterSel, changedFrom, changedTo)
     ELSE afterSel

\* the plugin without its preventUneditedRemoval test
AppendTransactionNoGuard(tr, oldSel, newSel, newDoc) ==
  Reclassify(tr, oldSel, newSel, newDoc)

\* the plugin scanning the whole document after a document change
AppendTransactionFullScan(tr, oldSel, newSel, newDoc) ==
  IF tr.programmatic THEN newDoc
  ELSE IF tr.docChanged
       THEN FlipBetween(newDoc, newDoc, 0, ContentSize(newDoc))
       ELSE Reclassify(tr, oldSel, newSel, newDoc)

AppendTransaction(tr, oldSel, newSel, newDoc) ==
  IF tr.programmatic THEN newDoc
  ELSE Reclassify(tr, oldSel, newSel, newDoc)

\* an insertion that replaces the character before pos
InsertTextOverwrite(d, text, pos) ==
  SubSeq(d, 1, pos - 2)
    \o [i \in 1..Len(text) |-> Char(text[i], MarksAt(d, pos))]
    \o SubSeq(d, pos, Len(d))

\* Transaction.insertText(text, pos): the new characters take the marks
\* found at pos
InsertText(d, text, pos) ==
  LET m == MarksAt(d, pos)
  IN SubSeq(d, 1, pos - 1)
       \o [i \in 1..Len(text) |-> Char(text[i], m)]
       \o SubSeq(d, pos, Len(d))

\* Transaction.addMark(from, to, mark): a mark excludes others of its type
AddMark(d, from, to, mark) ==
  [i \in 1..Len(d) |-> IF from <= i /\ i < to THEN Char(d[i].ch, mark) ELSE d[i]]

\* a mapping that shifts every position, those before the insertion too
MapInsertAll(p, at, n) == p + n

\* Mapping.map(pos) through an insertion of n characters at `at` (assoc = 1)
MapInsert(p, at, n) == IF p >= at THEN p + n ELSE p

\* an insertion point at the start of the paragraph
EndPosAtStart(d) == 1

\* const endPos = state.doc.content.size - 1
EndPos(d) == ContentSize(d) - 1

TextToInsert(d, text) == IF HasContent(d) THEN <<" ">> \o text ELSE text

\* an appendText whose mark covers the whole paragraph
AppendTextDocMarkAll(d, text, timestampMs) ==
  LET endPos == EndPos(d)
      textToInsert == TextToInsert(d, text)
  IN AddMark(InsertText(d, textToInsert, endPos), 1, endPos + Len(textToInsert),
             UneditedMark(FALSE, timestampMs))

\* The document built by appendText's transaction
AppendTextDoc(d, text, timestampMs) ==
  LET endPos == EndPos(d)
      textToInsert == TextToInsert(d, text)
      from == endPos
      to == endPos + Len(textToInsert)
  IN AddMark(InsertText(d, textToInsert, endPos), from, to,
             UneditedMark(FALSE, timestampMs))

\* The selections appendText's transaction can leave: the old selection
\* mapped through the insertion; insertText collapses a non-empty
\* selection to its end (always when it ends at the inserted text; for a
\* selection elsewhere that depends on the prosemirror-state release).
AppendTextSelections(d, s, text) ==
  LET n == Len(TextToInsert(d, text))
      mapped == [anchor |-> MapInsert(s.anchor, EndPos(d), n),
                 head |-> MapInsert(s.head, EndPos(d), n)]
  IN IF mapped.anchor = mapped.head THEN {mapped}
     ELSE IF SelTo(mapped) = EndPos(d) + n THEN {Cursor(SelTo(mapped))}
     ELSE {mapped, Cursor(SelTo(mapped))}

ProgrammaticTr(d, text) ==
  [programmatic |-> TRUE, docChanged |-> TRUE, hasRange |-> TRUE,
   ranges |-> <<EndPos(d), EndPos(d) + Len(TextToInsert(d, text))>>]

\* editor.view.dispatch(tr) of appendText, the plugin included
AppendText(d, s, s2, text, timestampMs) ==
  AppendTransaction(ProgrammaticTr(d, text), s, s2,
                    AppendTextDoc(d, text, timestampMs))

\* appendText without its first line
AppendTextCallNoGuard(ed, d, s, s2, text, timestampMs) ==
  AppendText(d, s, s2, text, timestampMs)

\* editorRef.current?.appendText(text, timestampMs): nothing happens when
\* the ref is null or when appendText finds no editor (if (!editor) return)
AppendTextCall(ed, d, s, s2, text, timestampMs) ==
  IF ed = Null THEN d ELSE AppendText(d, s, s2, text, timestampMs)

AppendTextCallSelections(ed, d, s, text) ==
  IF ed = Null THEN {s} ELSE AppendTextSelections(d, s, text)


\* ======================================================== the page (caller)

\* What is left of chunk `id`'s transcription after trimming and filtering
ChunkText(id) == <<ToString(id)>>

Outcomes == {"text", "empty", "transcribeThrows", "callbackThrows"}

\* the bracketed tags the replace(/\[...\]/gi, "") calls remove; a tag is
\* one element of a text
Hallucinations == {"[muziek]", "[music]", "[applaus]", "[laughter]", "[gelach]"}

\* The strings transcribe can resolve with, by outcome: a text outcome is
\* the chunk's words with white space and a tag around them; an empty
\* outcome is the empty string, white space only, or nothing but a tag.
TranscribeResults(id, outcome) ==
  CASE outcome = "text" -> {<<" ">> \o ChunkText(id) \o <<"[music]", " ">>}
    [] outcome = "empty" -> {<< >>, <<" ">>, <<" ", "[applaus]", " ">>}
    [] OTHER -> {<< >>}

RECURSIVE TrimStart(_)
TrimStart(t) ==
  IF Len(t) > 0 /\ IsSpace(Head(t)) THEN TrimStart(Tail(t)) ELSE t

RECURSIVE TrimEnd(_)
TrimEnd(t) ==
  IF Len(t) > 0 /\ IsSpace(t[Len(t)]) THEN TrimEnd(SubSeq(t, 1, Len(t) - 1)) ELSE t

\* String.prototype.trim
Trim(t) == TrimEnd(TrimStart(t))

IsWord(c) == c \notin Hallucinations

\* a filter that only trims and keeps the tags
FilteredKeepTags(t) == Trim(t)

\* text.trim().replace(...)....trim()
Filtered(t) == Trim(SelectSeq(Trim(t), IsWord))

\* if (text && text.trim()) ... if (filtered): the call reaches the merge
HasText(outcome, raw) ==
  /\ outcome \in {"text", "empty"}
  /\ Len(raw) > 0
  /\ Len(Trim(raw)) > 0
  /\ Len(Filtered(raw)) > 0

\* handleAudioChunk after transcribe has settled: the document and the
\* segment list it leaves.  cb is the closure startRecording was given.
HandleAudioChunkDoc(cb, chunk, outcome, raw, d, s, s2, now) ==
  IF HasText(outcome, raw) /\ cb.viewMode = "editor"
  THEN AppendTextCall(editor, d, s, s2, Filtered(raw), now - recordingStartTimeRef)
  ELSE d

HandleAudioChunkSelections(cb, chunk, outcome, raw, d, s) ==
  IF HasText(outcome, raw) /\ cb.viewMode = "editor"
  THEN AppendTextCallSelections(editor, d, s, Filtered(raw))
  ELSE {s}

HandleAudioChunkSegments(cb, chunk, outcome, raw, segs) ==
  IF HasText(outcome, raw) /\ cb.viewMode = "segments"
  THEN Append(segs, Filtered(raw))
  ELSE segs

\* the promise handleAudioChunk returns rejects only when something outside
\* its try block throws
HandleAudioChunkRejects(outcome) == outcome = "callbackThrows"

\* ================================================== the dispatch queue

Queue(p, pending, fl, inv) ==
  [isProcessing |-> p, pendingChunks |-> pending, inflight |-> fl, invoked |-> inv]

\* processQueue that does not test isProcessingRef
ProcessQueueNoGuard(q, cb) ==
  IF Len(q.pendingChunks) = 0 \/ cb = NoCallback
  THEN q
  ELSE Queue(TRUE, Tail(q.pendingChunks),
             q.inflight \cup {[chunk |-> Head(q.pendingChunks), cb |-> cb]},
             Append(q.invoked, Head(q.pendingChunks).id))

\* processQueue that takes the newest chunk (pop) instead of the oldest
ProcessQueueLifo(q, cb) ==
  IF q.isProcessing \/ Len(q.pendingChunks) = 0 \/ cb = NoCallback
  THEN q
  ELSE LET n == Len(q.pendingChunks)
       IN Queue(TRUE, SubSeq(q.pendingChunks, 1, n - 1),
                q.inflight \cup {[chunk |-> q.pendingChunks[n], cb |-> cb]},
                Append(q.invoked, q.pendingChunks[n].id))

\* processQueue up to its await: q is the queue state it finds
ProcessQueue(q, cb) ==
  IF q.isProcessing \/ Len(q.pendingChunks) = 0 \/ cb = NoCallback
  THEN q
  ELSE Queue(TRUE, Tail(q.pendingChunks),
             q.inflight \cup {[chunk |-> Head(q.pendingChunks), cb |-> cb]},
             Append(q.invoked, Head(q.pendingChunks).id))

\* processQueue whose reset runs after the await instead of in finally
ProcessQueueSettledNoFinally(q, call, outcome, cb) ==
  IF outcome = "callbackThrows"
  THEN Queue(q.isProcessing, q.pendingChunks, q.inflight \ {call}, q.invoked)
  ELSE ProcessQueue(Queue(FALSE, q.pendingChunks, q.inflight \ {call}, q.invoked), cb)

\* processQueue whose finally block resets the flag without calling
\* processQueue again
ProcessQueueSettledNoNext(q, call, outcome, cb) ==
  Queue(FALSE, q.pendingChunks, q.inflight \ {call}, q.invoked)

\* processQueue after its await: catch, then finally
ProcessQueueSettled(q, call, outcome, cb) ==
  ProcessQueue(Queue(FALSE, q.pendingChunks, q.inflight \ {call}, q.invoked), cb)

CurrentQueue == Queue(isProcessingRef, pendingChunksRef, inflight, invoked)

SetQueue(q) ==
  /\ isProcessingRef' = q.isProcessing
  /\ pendingChunksRef' = q.pendingChunks
  /\ inflight' = q.inflight
  /\ invoked' = q.invoked

\* sendChunk that keeps only the newest chunk while a call is in flight
SendChunkKeepNewest(q, buffer, cb) ==
  IF BagCardinality(buffer) > 0
  THEN ProcessQueue(Queue(q.isProcessing,
                          IF q.isProcessing
                          THEN <<[id |-> nextChunk, data |-> buffer]>>
                          ELSE Append(q.pendingChunks, [id |-> nextChunk, data |-> buffer]),
                          q.inflight, q.invoked), cb)
  ELSE q

\* sendChunk: the queue it leaves, given the buffer
SendChunk(q, buffer, cb) ==
  IF BagCardinality(buffer) > 0
  THEN ProcessQueue(Queue(q.isProcessing,
                          Append(q.pendingChunks, [id |-> nextChunk, data |-> buffer]),
                          q.inflight, q.invoked), cb)
  ELSE q

\* ------------------------------------------------------------------ actions

Init ==
  /\ isRecording = FALSE
  /\ error = Null
  /\ processorRef = 0
  /\ audioBuffer = EmptyBag
  /\ streamRef = FALSE
  /\ audioContextRef = FALSE
  /\ sourceRef = FALSE
  /\ onAudioChunkRef = NoCallback
  /\ isProcessingRef = FALSE
  /\ pendingChunksRef = <<>>
  /\ lastSpeechTimeRef = 0
  /\ chunkStartTimeRef = 0
  /\ clock = 0
  /\ starting = 0
  /\ liveProcessors = {}
  /\ inflight = {}
  /\ recordingStartTimeRef = 0
  /\ viewMode = "editor"
  /\ segments = <<>>
  /\ doc = <<>>
  /\ selection = Cursor(1)
  /\ editor = Null
  /\ invoked = <<>>
  /\ nextChunk = 1
  /\ starts = 0
  /\ last = [op |-> "init"]
  \* new AudioVADProcessor()
  /\ speechThreshold = DefaultSpeechThreshold
  /\ silenceDurationMs = DefaultSilenceDurationMs
  /\ minChunkDurationMs = DefaultMinChunkDurationMs
  /\ maxChunkDurationMs = DefaultMaxChunkDurationMs
  /\ maxBufferSizeBytes = DefaultMaxBufferSizeBytes
  /\ vadAudioBuffer = <<>>
  /\ currentTime = 0
  /\ chunkStartTime = 0
  /\ lastSpeechTime = 0
  /\ chunkHasSpeech = FALSE
  /\ port = <<>>
  \* the speech indicator before the first audioLevel message
  /\ lastSpeechStateRef = FALSE
  /\ speechDebounceTimerRef = 0
  /\ publishedHasSpeech = FALSE
  /\ timers = {}
  /\ timerClock = 0
  /\ nextTimer = 1
  /\ rawChangedAt = 0
  \* useWhisperTranscription before loadModel, and a worker not yet started
  /\ workerRef = Null
  /\ isModelLoading = FALSE
  /\ isModelLoaded = FALSE
  /\ whisperError = Null
  /\ mounted = TRUE
  /\ promises = <<>>
  /\ workersCreated = 0
  /\ tokenizer = 0
  /\ processor = 0
  /\ model = 0
  /\ fromPretrained = 0
  /\ toWorker = <<>>
  /\ toMain = <<>>
  /\ running = {}
  /\ answered = <<>>
  \* no speakers and no segments yet
  /\ speakers = <<>>
  /\ segmentList = <<>>
  /\ segmentsMade = 0
  \* useLocalStorage(key, initialValue) after its first render, nothing
  \* stored under the key
  /\ storedValue = 0
  /\ localStorageItem = <<>>
  /\ storageTimers = {}
  /\ timeoutId = 0
  /\ storageClock = 0
  /\ nextTimeoutId = 1
  /\ storedChangedAt = 0
  /\ saveThrew = FALSE

\* Date.now() advances with no audio event in between: no processor is
\* connected (a connected one raises onaudioprocess every 4096 samples)
Tick ==
  /\ liveProcessors = {}
  /\ clock + TickMs <= MaxNow
  /\ clock' = clock + TickMs
  /\ last' = [op |-> "tick"]
  /\ UNCHANGED <<hookVars, queueVars, pageVars, editorVars, starts>>
  /\ UNCHANGED <<vadVars, debounceVars, appVars>>

\* the view-mode buttons of the page.  <TranscriptEditor> is rendered only in
\* editor mode: leaving it unmounts the component and destroys its editor,
\* entering it mounts a new one whose editor is still null.
SetViewMode(m) ==
  /\ viewMode # m
  /\ viewMode' = m
  /\ editor' = Null
  /\ doc' = <<>>
  /\ selection' = Cursor(1)
  /\ last' = [op |-> "setViewMode"]
  /\ UNCHANGED <<hookVars, queueVars, recordingStartTimeRef, segments,
                 vadVars, debounceVars, appVars, clock, starts>>

\* useEditor creates the editor after the first render (immediatelyRender:
\* false), with the empty initial content
EditorCreated ==
  /\ viewMode = "editor"
  /\ editor = Null
  /\ editor' = "editor"
  /\ doc' = <<>>
  /\ selection' = Cursor(1)
  /\ last' = [op |-> "editorCreated"]
  /\ UNCHANGED <<hookVars, queueVars, pageVars, vadVars, debounceVars, appVars, clock,
                 starts>>

\* handleStartRecording, and startRecording up to its await of getUserMedia
StartRecording ==
  /\ ~isRecording
  /\ starts < MaxStarts
  /\ starts' = starts + 1
  /\ recordingStartTimeRef' = clock
  /\ error' = Null
  /\ onAudioChunkRef' = [viewMode |-> viewMode]
  /\ starting' = starting + 1
  /\ last' = [op |-> "startRecording"]
  /\ UNCHANGED <<isRecording, processorRef, audioBuffer, lastSpeechTimeRef,
                 chunkStartTimeRef, liveProcessors, streamRef, audioContextRef,
                 sourceRef, queueVars, viewMode, segments, editorVars, clock>>
  /\ UNCHANGED <<vadVars, debounceVars, appVars>>

\* the startRecording call whose getUserMedia settles next: the oldest of
\* the `starting` calls still awaiting it
Resuming == starts - starting + 1

\* the statements of startRecording after getUserMedia that can throw
SetupSteps ==
  {"AudioContext", "createMediaStreamSource", "createScriptProcessor", "connect"}

\* startRecording after getUserMedia resolved, when one of the following
\* statements throws: the refs assigned before it keep their objects, and
\* the catch block sets the error and rethrows
SetupThrows(step) ==
  /\ starting > 0
  /\ starting' = starting - 1
  /\ streamRef' = TRUE
  /\ audioContextRef' = IF step = "AudioContext" THEN audioContextRef ELSE TRUE
  /\ sourceRef' = IF step \in {"AudioContext", "createMediaStreamSource"}
                  THEN sourceRef ELSE TRUE
  /\ IF step = "connect"
     THEN /\ processorRef' = Resuming
          /\ audioBuffer' = EmptyBag
          /\ chunkStartTimeRef' = clock
          /\ lastSpeechTimeRef' = clock
     ELSE UNCHANGED <<processorRef, audioBuffer, chunkStartTimeRef, lastSpeechTimeRef>>
  /\ error' = step
  /\ last' = [op |-> "recordingFailed", rejected |-> TRUE]
  /\ UNCHANGED <<isRecording, onAudioChunkRef, liveProcessors, queueVars,
                 pageVars, editorVars, clock, starts>>
  /\ UNCHANGED <<vadVars, debounceVars, appVars>>

\* startRecording after getUserMedia resolved
GetUserMediaResolves ==
  /\ starting > 0
  /\ starting' = starting - 1
  /\ streamRef' = TRUE
  /\ audioContextRef' = TRUE
  /\ sourceRef' = TRUE
  /\ processorRef' = Resuming
  /\ liveProcessors' = liveProcessors \cup {Resuming}
  /\ audioBuffer' = EmptyBag
  /\ chunkStartTimeRef' = clock
  /\ lastSpeechTimeRef' = clock
  /\ isRecording' = TRUE
  /\ last' = [op |-> "recordingStarted"]
  /\ UNCHANGED <<error, onAudioChunkRef, queueVars, pageVars, editorVars,
                 clock, starts>>
  /\ UNCHANGED <<vadVars, debounceVars, appVars>>

\* startRecording after getUserMedia rejected
GetUserMediaRejects ==
  /\ starting > 0
  /\ starting' = starting - 1
  /\ error' = "Failed to access microphone"
  /\ last' = [op |-> "recordingFailed", rejected |-> TRUE]
  /\ UNCHANGED <<isRecording, processorRef, audioBuffer, onAudioChunkRef,
                 lastSpeechTimeRef, chunkStartTimeRef, liveProcessors,
                 streamRef, audioContextRef, sourceRef,
                 queueVars, pageVars, editorVars, clock, starts>>
  /\ UNCHANGED <<vadVars, debounceVars, appVars>>

\* handleStopRecording -> stopRecording
StopRecording ==
  /\ isRecording
  /\ liveProcessors' = liveProcessors \ {processorRef}
  /\ processorRef' = 0
  /\ sourceRef' = FALSE
  /\ audioContextRef' = FALSE
  /\ streamRef' = FALSE
  /\ audioBuffer' = EmptyBag
  /\ isRecording' = FALSE
  /\ last' = [op |-> "stopRecording"]
  /\ UNCHANGED <<error, onAudioChunkRef, lastSpeechTimeRef, chunkStartTimeRef,
                 starting, queueVars, pageVars, editorVars, clock, starts>>
  /\ UNCHANGED <<vadVars, debounceVars, appVars>>

\* onaudioprocess of processor p for one input block, one tick after the
\* previous event; hasSpeech is rms > speechThreshold
OnAudioProcess(p, hasSpeech) ==
  /\ p \in liveProcessors
  /\ nextChunk <= MaxChunks
  /\ clock + TickMs <= MaxNow
  /\ clock' = clock + TickMs
  /\ LET now == clock'
         lastSpeech == IF hasSpeech THEN now ELSE lastSpeechTimeRef
         buffer == audioBuffer (+) SetToBag({p})
         chunkDuration == now - chunkStartTimeRef
         timeSinceLastSpeech == now - lastSpeech
         shouldSendDueToSilence ==
           timeSinceLastSpeech >= SILENCE_DURATION_MS
             /\ chunkDuration >= MIN_CHUNK_DURATION_MS
         shouldSendDueToMaxLength == chunkDuration >= MAX_CHUNK_DURATION_MS
         send == shouldSendDueToSilence \/ shouldSendDueToMaxLength
     IN /\ lastSpeechTimeRef' = lastSpeech
        /\ IF send
           THEN /\ SetQueue(SendChunk(CurrentQueue, buffer, onAudioChunkRef))
                /\ nextChunk' = nextChunk + 1
                /\ audioBuffer' = EmptyBag
                /\ chunkStartTimeRef' = now
           ELSE /\ audioBuffer' = buffer
                /\ UNCHANGED <<queueVars, chunkStartTimeRef>>
        /\ last' = [op |-> "audioProcess", sent |-> send]
  /\ UNCHANGED <<isRecording, error, processorRef, onAudioChunkRef, starting,
                 liveProcessors, streamRef, audioContextRef, sourceRef,
                 pageVars, editorVars, starts>>
  /\ UNCHANGED <<vadVars, debounceVars, appVars>>

\* the awaited onAudioChunk call of processQueue settles
InvocationSettles(call, outcome, raw) ==
  /\ call \in inflight
  /\ \E s2 \in HandleAudioChunkSelections(call.cb, call.chunk, outcome, raw, doc, selection) :
       /\ selection' = s2
       /\ doc' = HandleAudioChunkDoc(call.cb, call.chunk, outcome, raw, doc, selection, s2, clock)
  /\ editor' = editor
  /\ segments' = HandleAudioChunkSegments(call.cb, call.chunk, outcome, raw, segments)
  /\ SetQueue(ProcessQueueSettled(CurrentQueue, call, outcome, onAudioChunkRef))
  /\ last' = [op |-> "settled", id |-> call.chunk.id, outcome |-> outcome,
              raw |-> raw, rejected |-> HandleAudioChunkRejects(outcome),
              mode |-> call.cb.viewMode,
              next |-> IF Len(pendingChunksRef) > 0 THEN Head(pendingChunksRef).id ELSE 0]
  /\ UNCHANGED <<hookVars, nextChunk, recordingStartTimeRef, viewMode, clock,
                 starts>>
  /\ UNCHANGED <<vadVars, debounceVars, appVars>>

NextQueue ==
  \/ Tick
  \/ \E m \in {"editor", "segments"} : SetViewMode(m)
  \/ StartRecording
  \/ GetUserMediaResolves
  \/ GetUserMediaRejects
  \/ StopRecording
  \/ EditorCreated
  \/ \E p \in liveProcessors : \E hasSpeech \in BOOLEAN : OnAudioProcess(p, hasSpeech)
  \/ \E call \in inflight : \E outcome \in Outcomes :
       \E raw \in TranscribeResults(call.chunk.id, outcome) :
         InvocationSettles(call, outcome, raw)

SpecQueue == Init /\ [][NextQueue]_vars

\* the capture hook alone: starts that succeed or fail at any statement of
\* the setup, stops, and the input blocks of every connected processor
NextCapture ==
  \/ StartRecording
  \/ GetUserMediaResolves
  \/ GetUserMediaRejects
  \/ \E step \in SetupSteps : SetupThrows(step)
  \/ StopRecording
  \/ \E p \in liveProcessors : \E hasSpeech \in BOOLEAN : OnAudioProcess(p, hasSpeech)

SpecCapture == Init /\ [][NextCapture]_vars

\* the awaited onAudioChunk call of some processQueue settles, in any way
Settle ==
  \E call \in inflight : \E outcome \in Outcomes :
    \E raw \in TranscribeResults(call.chunk.id, outcome) :
      InvocationSettles(call, outcome, raw)

\* one recording that is never stopped: capture and dispatch, every call
\* in flight completing eventually
NextDrain ==
  \/ StartRecording
  \/ GetUserMediaResolves
  \/ \E p \in liveProcessors : \E hasSpeech \in BOOLEAN : OnAudioProcess(p, hasSpeech)
  \/ Settle

SpecDrain == Init /\ [][NextDrain]_vars /\ WF_vars(Settle)


\* ================================================= the editor in user hands

AppendTexts == {<<"m">>}
AppendTimes == {1000, 5000}
UserChars == {"u", " "}

UserTr(newStart, newEnd) ==
  [programmatic |-> FALSE, docChanged |-> TRUE, hasRange |-> TRUE,
   ranges |-> <<newStart, newEnd>>]

SelectionTr ==
  [programmatic |-> FALSE, docChanged |-> FALSE, hasRange |-> FALSE,
   ranges |-> <<0, 0>>]

\* ReplaceStep(from, to, slice): delete [from, to) and insert `chars`
Replace(d, from, to, chars) ==
  SubSeq(d, 1, from - 1) \o chars \o SubSeq(d, to, Len(d))

\* $from.marksAcross($to): the marks of the first replaced character
MarksAcross(d, from) == d[from].marks

editorFrame ==
  UNCHANGED <<hookVars, queueVars, pageVars, vadVars, debounceVars, appVars, clock,
              starts, editor>>

\* TranscriptEditorHandle.appendText(text, timestampMs)
EditorAppendText(text, timestampMs) ==
  /\ Len(doc) + Len(TextToInsert(doc, text)) <= MaxDocLen
  /\ \E s2 \in AppendTextCallSelections(editor, doc, selection, text) :
       /\ selection' = s2
       /\ doc' = AppendTextCall(editor, doc, selection, s2, text, timestampMs)
  /\ last' = [op |-> IF editor = Null THEN "appendTextNoEditor" ELSE "appendText",
              text |-> text, time |-> timestampMs]
  /\ editorFrame

\* a click, drag or arrow key: a transaction that only sets the selection
SetSelection(a, h) ==
  /\ editor # Null
  /\ [anchor |-> a, head |-> h] # selection
  /\ selection' = [anchor |-> a, head |-> h]
  /\ doc' = AppendTransaction(SelectionTr, selection, selection', doc)
  /\ last' = [op |-> "setSelection", changed |-> doc' # doc]
  /\ editorFrame

\* the user types one character, replacing the selection if there is one
TypeChar(c) ==
  LET from == SelFrom(selection)
      to == SelTo(selection)
      m == IF from = to THEN MarksAt(doc, from) ELSE MarksAcross(doc, from)
      newDoc == Replace(doc, from, to, <<Char(c, m)>>)
  IN /\ editor # Null
     /\ Len(newDoc) <= MaxDocLen
     /\ selection' = Cursor(from + 1)
     /\ doc' = AppendTransaction(UserTr(from, from + 1), selection, selection', newDoc)
     /\ last' = [op |-> "type", changed |-> doc' # newDoc]
     /\ editorFrame

\* Backspace: deletes the selection, or the character before the cursor
Backspace ==
  LET from == IF selection.anchor = selection.head
              THEN selection.head - 1 ELSE SelFrom(selection)
      to == SelTo(selection)
      newDoc == Replace(doc, from, to, <<>>)
  IN /\ editor # Null
     /\ from >= 1
     /\ selection' = Cursor(from)
     /\ doc' = AppendTransaction(UserTr(from, from), selection, selection', newDoc)
     /\ last' = [op |-> "backspace"]
     /\ editorFrame

\* Delete: deletes the character after the cursor; the cursor stays
DeleteForward ==
  LET from == selection.head
      to == from + 1
      newDoc == Replace(doc, from, to, <<>>)
  IN /\ editor # Null
     /\ selection.anchor = selection.head
     /\ from <= Len(doc)
     /\ selection' = selection
     /\ doc' = AppendTransaction(UserTr(from, from), selection, selection', newDoc)
     /\ last' = [op |-> "delete"]
     /\ editorFrame

NextEditor ==
  \/ EditorCreated
  \/ \E text \in AppendTexts : \E t \in AppendTimes : EditorAppendText(text, t)
  \/ \E a \in 1..(Len(doc) + 1) : \E h \in a..(Len(doc) + 1) : SetSelection(a, h)
  \/ \E c \in UserChars : TypeChar(c)
  \/ Backspace
  \/ DeleteForward

SpecEditor == Init /\ [][NextEditor]_vars


\* ====================================================== timestamp markers

\* the times the nodesBetween(from, from, ...) callback picks up: those of
\* the unedited marks of the text node the position lies strictly inside
TimesAt(d, from) ==
  {m.time : m \in UNION {d[i].marks : i \in {k \in 1..Len(d) :
                                               IsText(d[k]) /\ Visited(d, from, from, k)}}}

\* chain().focus().insertTimestamp(time).run(): the atom replaces the
\* selection, the cursor ends behind it, and the plugin sees a user edit
InsertTimestamp(time) ==
  LET from == SelFrom(selection)
      to == SelTo(selection)
      newDoc == Replace(doc, from, to, <<TimestampNode(time)>>)
  IN /\ Len(newDoc) <= MaxDocLen
     /\ selection' = Cursor(from + 1)
     /\ doc' = AppendTransaction(UserTr(from, from + 1), selection, selection', newDoc)

\* TranscriptEditorHandle.insertTimestampAtCursor
InsertTimestampAtCursor ==
  LET found == TimesAt(doc, SelFrom(selection))
      timestampMs == IF found = {} THEN 0 ELSE CHOOSE t \in found : TRUE
  IN /\ IF editor = Null
        THEN UNCHANGED <<doc, selection>>
        ELSE InsertTimestamp(timestampMs)
     /\ last' = [op |-> "insertTimestampAtCursor"]
     /\ editorFrame

\* the timestamp button of the page
TimestampButton ==
  LET found == TimesAt(doc, SelFrom(selection))
  IN /\ IF editor # Null /\ found # {} /\ (CHOOSE t \in found : TRUE) >= 0
        THEN InsertTimestamp(CHOOSE t \in found : TRUE)
        ELSE UNCHANGED <<doc, selection>>
     /\ last' = [op |-> "timestampButton"]
     /\ editorFrame

\* the selection is only ever moved as a cursor here
NextTimestamp ==
  \/ EditorCreated
  \/ \E text \in AppendTexts : \E t \in AppendTimes : EditorAppendText(text, t)
  \/ \E a \in 1..(Len(doc) + 1) : SetSelection(a, a)
  \/ \E c \in UserChars : TypeChar(c)
  \/ InsertTimestampAtCursor
  \/ TimestampButton

SpecTimestamp == Init /\ [][NextTimestamp]_vars

\* the edited mark does not depend on the time of an append nor on which
\* character is typed: one time and one character stand for all
ProvenanceTime == CHOOSE t \in AppendTimes : TRUE

\* every operation on the document: appendText, selections, typing,
\* deletions and timestamp insertion

NextProvenance ==
  \/ EditorCreated
  \/ \E text \in AppendTexts : EditorAppendText(text, ProvenanceTime)
  \/ \E a \in 1..(Len(doc) + 1) : \E h \in a..(Len(doc) + 1) : SetSelection(a, h)
  \/ TypeChar("u")
  \/ Backspace
  \/ DeleteForward
  \/ InsertTimestampAtCursor
  \/ TimestampButton

SpecProvenance == Init /\ [][NextProvenance]_vars


\* ===================================== the audio worklet (AudioVADProcessor)

\* Math.sqrt(0 / 0), the level calculateRMS gives a channel of no samples
NaN == 0 - 1

\* a > b on levels; every comparison with NaN is false
Greater(a, b) == a # NaN /\ a > b

\* inputs[0] of one process call: no channel at all, a channel of no
\* samples, or a channel of FrameSamples samples at some level
NoInput == [present |-> FALSE, length |-> 0, level |-> 0]
Levels == {DefaultSpeechThreshold, DefaultSpeechThreshold + 1}
Inputs ==
  {NoInput, [present |-> TRUE, length |-> 0, level |-> 0]}
    \cup {[present |-> TRUE, length |-> FrameSamples, level |-> l] : l \in Levels}

\* the data of the configure messages; a field left out is undefined
ConfigureData ==
  { [silenceDurationMs |-> 500, minChunkDurationMs |-> 1000],
    [maxChunkDurationMs |-> 2000],
    [maxBufferSizeBytes |-> 16] }

\* data.field ?? current
Coalesce(data, field, current) ==
  IF field \in DOMAIN data THEN data[field] ELSE current

calculateRMS(inputChannel) ==
  IF inputChannel.length = 0 THEN NaN ELSE inputChannel.level

\* the samples one channel pushes on the buffer
Samples(inputChannel, now) ==
  [i \in 1..inputChannel.length |-> [t |-> now, level |-> inputChannel.level]]

\* the processor's buffer fields and the messages posted so far in this call
Processor ==
  [audioBuffer |-> vadAudioBuffer, chunkStartTime |-> chunkStartTime,
   lastSpeechTime |-> lastSpeechTime, chunkHasSpeech |-> chunkHasSpeech,
   port |-> <<>>]

SetProcessor(st) ==
  /\ vadAudioBuffer' = st.audioBuffer
  /\ chunkStartTime' = st.chunkStartTime
  /\ lastSpeechTime' = st.lastSpeechTime
  /\ chunkHasSpeech' = st.chunkHasSpeech
  /\ port' = st.port

\* sendChunk that forgets to restart the chunk's clock
ProcessorSendChunkKeepStart(st, now) ==
  IF Len(st.audioBuffer) = 0 \/ ~st.chunkHasSpeech
  THEN [st EXCEPT !.audioBuffer = <<>>, !.chunkHasSpeech = FALSE]
  ELSE [st EXCEPT !.port = Append(@, [type |-> "audioChunk",
                                      data |-> st.audioBuffer,
                                      timestamp |-> now]),
                  !.audioBuffer = <<>>,
                  !.chunkHasSpeech = FALSE]

\* sendChunk that leaves chunkHasSpeech set after posting
ProcessorSendChunkKeepSpeech(st, now) ==
  IF Len(st.audioBuffer) = 0 \/ ~st.chunkHasSpeech
  THEN [st EXCEPT !.audioBuffer = <<>>,
                  !.chunkStartTime = now,
                  !.chunkHasSpeech = FALSE]
  ELSE [st EXCEPT !.port = Append(@, [type |-> "audioChunk",
                                      data |-> st.audioBuffer,
                                      timestamp |-> now]),
                  !.audioBuffer = <<>>,
                  !.chunkStartTime = now]

\* sendChunk that posts whatever the buffer holds, speech or not
ProcessorSendChunkAlways(st, now) ==
  IF Len(st.audioBuffer) = 0
  THEN [st EXCEPT !.chunkStartTime = now, !.chunkHasSpeech = FALSE]
  ELSE [st EXCEPT !.port = Append(@, [type |-> "audioChunk",
                                      data |-> st.audioBuffer,
                                      timestamp |-> now]),
                  !.audioBuffer = <<>>,
                  !.chunkStartTime = now,
                  !.chunkHasSpeech = FALSE]

\* AudioVADProcessor.sendChunk at currentTime = now
ProcessorSendChunk(st, now) ==
  IF Len(st.audioBuffer) = 0 \/ ~st.chunkHasSpeech
  THEN [st EXCEPT !.audioBuffer = <<>>,
                  !.chunkStartTime = now,
                  !.chunkHasSpeech = FALSE]
  ELSE [st EXCEPT !.port = Append(@, [type |-> "audioChunk",
                                      data |-> st.audioBuffer,
                                      timestamp |-> now]),
                  !.audioBuffer = <<>>,
                  !.chunkStartTime = now,
                  !.chunkHasSpeech = FALSE]

\* an append that puts the new samples in front of the buffer
AppendedInFront(st, inputChannel, now) ==
  LET hasSpeech == Greater(calculateRMS(inputChannel), speechThreshold)
  IN [st EXCEPT !.lastSpeechTime = IF hasSpeech THEN now ELSE @,
                !.chunkHasSpeech = hasSpeech \/ @,
                !.audioBuffer = Samples(inputChannel, now) \o @]

\* process: speech detection and the append
Appended(st, inputChannel, now) ==
  LET hasSpeech == Greater(calculateRMS(inputChannel), speechThreshold)
  IN [st EXCEPT !.lastSpeechTime = IF hasSpeech THEN now ELSE @,
                !.chunkHasSpeech = hasSpeech \/ @,
                !.audioBuffer = @ \o Samples(inputChannel, now)]

\* a size check that posts the buffer and keeps it
SizeCheckedKeepBuffer(st, now) ==
  IF Len(st.audioBuffer) * bytesPerSample > maxBufferSizeBytes
  THEN [st EXCEPT !.port = Append(@, [type |-> "audioChunk",
                                      data |-> st.audioBuffer,
                                      timestamp |-> now])]
  ELSE st

\* process: the buffer size limit, checked after the append
SizeChecked(st, now) ==
  IF Len(st.audioBuffer) * bytesPerSample > maxBufferSizeBytes
  THEN ProcessorSendChunk(st, now)
  ELSE st

\* the silence test with > where the code has >=
DurationCheckedStrict(st, now) ==
  LET chunkDurationMs == now - st.chunkStartTime
      timeSinceLastSpeechMs == now - st.lastSpeechTime
      shouldSendDueToSilence ==
        timeSinceLastSpeechMs > silenceDurationMs
          /\ chunkDurationMs >= minChunkDurationMs
      shouldSendDueToMaxLength == chunkDurationMs >= maxChunkDurationMs
  IN IF shouldSendDueToSilence \/ shouldSendDueToMaxLength
     THEN ProcessorSendChunk(st, now)
     ELSE st

\* the silence test without the minimum chunk duration
DurationCheckedNoMin(st, now) ==
  LET chunkDurationMs == now - st.chunkStartTime
      timeSinceLastSpeechMs == now - st.lastSpeechTime
      shouldSendDueToSilence == timeSinceLastSpeechMs >= silenceDurationMs
      shouldSendDueToMaxLength == chunkDurationMs >= maxChunkDurationMs
  IN IF shouldSendDueToSilence \/ shouldSendDueToMaxLength
     THEN ProcessorSendChunk(st, now)
     ELSE st

\* the maximum-length test with > where the code has >=
DurationCheckedMaxStrict(st, now) ==
  LET chunkDurationMs == now - st.chunkStartTime
      timeSinceLastSpeechMs == now - st.lastSpeechTime
      shouldSendDueToSilence ==
        timeSinceLastSpeechMs >= silenceDurationMs
          /\ chunkDurationMs >= minChunkDurationMs
      shouldSendDueToMaxLength == chunkDurationMs > maxChunkDurationMs
  IN IF shouldSendDueToSilence \/ shouldSendDueToMaxLength
     THEN ProcessorSendChunk(st, now)
     ELSE st

\* process: the silence and maximum-length flushes
DurationChecked(st, now) ==
  LET chunkDurationMs == now - st.chunkStartTime
      timeSinceLastSpeechMs == now - st.lastSpeechTime
      shouldSendDueToSilence ==
        timeSinceLastSpeechMs >= silenceDurationMs
          /\ chunkDurationMs >= minChunkDurationMs
      shouldSendDueToMaxLength == chunkDurationMs >= maxChunkDurationMs
  IN IF shouldSendDueToSilence \/ shouldSendDueToMaxLength
     THEN ProcessorSendChunk(st, now)
     ELSE st

\* an audioLevel message that reports the chunk's flag, not the frame's
LevelPostedChunkFlag(st, inputChannel) ==
  [st EXCEPT !.port = Append(@, [type |-> "audioLevel",
                                 rms |-> calculateRMS(inputChannel),
                                 hasSpeech |-> st.chunkHasSpeech])]

\* process: the audioLevel message that ends the call
LevelPosted(st, inputChannel) ==
  [st EXCEPT !.port = Append(@, [type |-> "audioLevel",
                                 rms |-> calculateRMS(inputChannel),
                                 hasSpeech |-> Greater(calculateRMS(inputChannel),
                                                       speechThreshold)])]

\* AudioVADProcessor.process for the input of one render quantum
ProcessInput(st, input, now) ==
  IF ~input.present
  THEN st
  ELSE LevelPosted(DurationChecked(SizeChecked(Appended(st, input, now), now), now),
                   input)

vadFrame ==
  UNCHANGED <<hookVars, queueVars, pageVars, editorVars, debounceVars, appVars, clock, starts>>

\* the audio thread renders one quantum and calls process
Process(input) ==
  /\ currentTime + FrameMs <= MaxCurrentTime
  /\ currentTime' = currentTime + FrameMs
  /\ SetProcessor(ProcessInput(Processor, input, currentTime'))
  /\ last' = [op |-> "process", input |-> input]
  /\ UNCHANGED vadConfig
  /\ vadFrame

\* port.onmessage, type 'configure'
Configure(data) ==
  /\ speechThreshold' = Coalesce(data, "speechThreshold", speechThreshold)
  /\ silenceDurationMs' = Coalesce(data, "silenceDurationMs", silenceDurationMs)
  /\ minChunkDurationMs' = Coalesce(data, "minChunkDurationMs", minChunkDurationMs)
  /\ maxChunkDurationMs' = Coalesce(data, "maxChunkDurationMs", maxChunkDurationMs)
  /\ maxBufferSizeBytes' = Coalesce(data, "maxBufferSizeBytes", maxBufferSizeBytes)
  /\ port' = <<>>
  /\ last' = [op |-> "configure"]
  /\ UNCHANGED <<vadAudioBuffer, chunkStartTime, lastSpeechTime, chunkHasSpeech,
                 currentTime>>
  /\ vadFrame

\* port.onmessage, type 'reset'
Reset ==
  /\ vadAudioBuffer' = <<>>
  /\ chunkStartTime' = currentTime
  /\ lastSpeechTime' = currentTime
  /\ chunkHasSpeech' = FALSE
  /\ port' = <<>>
  /\ last' = [op |-> "reset"]
  /\ UNCHANGED <<vadConfig, currentTime>>
  /\ vadFrame

NextVad ==
  \/ \E input \in Inputs : Process(input)
  \/ \E data \in ConfigureData : Configure(data)
  \/ Reset

SpecVad == Init /\ [][NextVad]_vars


\* ================================================== the speech indicator

\* the fields the audioLevel branch of the message handler works on
Debounce ==
  [lastSpeechState |-> lastSpeechStateRef, timerRef |-> speechDebounceTimerRef,
   hasSpeech |-> publishedHasSpeech, timers |-> timers]

SetDebounce(st) ==
  /\ lastSpeechStateRef' = st.lastSpeechState
  /\ speechDebounceTimerRef' = st.timerRef
  /\ publishedHasSpeech' = st.hasSpeech
  /\ timers' = st.timers

\* clearTimeout(id): the timeout with that id, if still pending, is dropped
ClearTimeout(ts, id) == {t \in ts : t.id # id}

\* the audioLevel branch without its clearTimeout
OnAudioLevelNoClear(st, newSpeechState, now) ==
  IF newSpeechState # st.lastSpeechState
  THEN [st EXCEPT !.lastSpeechState = newSpeechState,
                  !.timers = @ \cup {[id |-> nextTimer, value |-> newSpeechState,
                                      due |-> now + SpeechDebounceMs]},
                  !.timerRef = nextTimer]
  ELSE st

\* the audioLevel branch of the worklet message handler
OnAudioLevel(st, newSpeechState, now) ==
  IF newSpeechState # st.lastSpeechState
  THEN [st EXCEPT !.lastSpeechState = newSpeechState,
                  !.timers = (IF st.timerRef # 0 THEN ClearTimeout(@, st.timerRef) ELSE @)
                               \cup {[id |-> nextTimer, value |-> newSpeechState,
                                      due |-> now + SpeechDebounceMs]},
                  !.timerRef = nextTimer]
  ELSE st

\* the callback given to setTimeout, for timeout t
OnTimeout(st, t) ==
  [st EXCEPT !.hasSpeech = t.value, !.timerRef = 0, !.timers = @ \ {t}]

debounceFrame ==
  UNCHANGED <<hookVars, queueVars, pageVars, editorVars, vadVars, appVars, clock, starts>>

\* an audioLevel message of the worklet arrives
AudioLevelMessage(newSpeechState) ==
  /\ nextTimer <= MaxTimers
  /\ SetDebounce(OnAudioLevel(Debounce, newSpeechState, timerClock))
  /\ nextTimer' = IF newSpeechState # lastSpeechStateRef THEN nextTimer + 1 ELSE nextTimer
  /\ rawChangedAt' = IF newSpeechState # lastSpeechStateRef THEN timerClock ELSE rawChangedAt
  /\ last' = [op |-> "audioLevel", changed |-> newSpeechState # lastSpeechStateRef]
  /\ UNCHANGED timerClock
  /\ debounceFrame

\* a pending timeout that is due runs its callback
TimeoutFires(t) ==
  /\ t \in timers
  /\ t.due <= timerClock
  /\ SetDebounce(OnTimeout(Debounce, t))
  /\ last' = [op |-> "timeout", value |-> t.value]
  /\ UNCHANGED <<timerClock, nextTimer, rawChangedAt>>
  /\ debounceFrame

\* time passes; a timeout that is due runs before time passes further
TimerTick ==
  /\ timerClock + TimerTickMs <= MaxTimerClock
  /\ \A t \in timers : t.due > timerClock
  /\ timerClock' = timerClock + TimerTickMs
  /\ last' = [op |-> "timerTick"]
  /\ UNCHANGED <<lastSpeechStateRef, speechDebounceTimerRef, publishedHasSpeech,
                 timers, nextTimer, rawChangedAt>>
  /\ debounceFrame

NextDebounce ==
  \/ \E newSpeechState \in BOOLEAN : AudioLevelMessage(newSpeechState)
  \/ \E t \in timers : TimeoutFires(t)
  \/ TimerTick

SpecDebounce == Init /\ [][NextDebounce]_vars

\* ===================================================== properties: the queue

InflightIds == {call.chunk.id : call \in inflight}
PendingIds == [i \in 1..Len(pendingChunksRef) |-> pendingChunksRef[i].id]
\* the chunks enqueued so far, in enqueue order
Enqueued == [i \in 1..(nextChunk - 1) |-> i]

\* C1: at most one onAudioChunk invocation is outstanding in every reachable
\* state, and an outstanding invocation always holds the isProcessing flag,
\* under any interleaving of enqueues, completions, starts and stops.
C1_MutualExclusion ==
  /\ Cardinality(inflight) <= 1
  /\ inflight # {} => isProcessingRef

\* a call is in flight, another chunk waits, and recording was restarted
C1_Witness ==
  /\ Cardinality(inflight) = 1
  /\ Len(pendingChunksRef) >= 1
  /\ starts = 2
  /\ isRecording

\* C2: the invocations made so far followed by the chunks still pending are
\* exactly the enqueued chunks in enqueue order (none skipped, duplicated or
\* reordered), and a chunk only waits while a call is outstanding: once
\* every call has completed, every enqueued chunk has been invoked once.
C2_ExactlyOnceFifo ==
  /\ invoked \o PendingIds = Enqueued
  /\ ~isProcessingRef => (pendingChunksRef = <<>> /\ invoked = Enqueued)

\* three chunks went through the queue, the last started by a completion
C2_Witness ==
  /\ invoked = <<1, 2, 3>>
  /\ inflight = {}
  /\ last.op = "settled"
  /\ last.id = 3

Throws == {"transcribeThrows", "callbackThrows"}

\* C3: in the state right after an invocation threw, the queue has not
\* halted: the head of the pending list (if any) is the call now in
\* flight, and otherwise isProcessing is clear so the next enqueue starts.
C3_ErrorTolerance ==
  (last.op = "settled" /\ last.outcome \in Throws) =>
     IF last.next # 0
     THEN /\ InflightIds = {last.next}
          /\ invoked[Len(invoked)] = last.next
     ELSE /\ ~isProcessingRef
          /\ inflight = {}

\* the callback itself rejected while another chunk was waiting
C3_Witness ==
  /\ last.op = "settled"
  /\ last.outcome = "callbackThrows"
  /\ last.next # 0

\* the chunk whose text a document character comes from
ChunkOf(c) == CHOOSE k \in 1..nextChunk : ToString(k) = c

\* C4: the texts in the document are in the order their chunks were
\* enqueued: no text of a later chunk stands before one of an earlier chunk.
C4_ResultOrder ==
  \A i \in 1..Len(doc) : \A j \in 1..Len(doc) :
    (i < j /\ ~IsSpace(doc[i].ch) /\ ~IsSpace(doc[j].ch))
       => ChunkOf(doc[i].ch) < ChunkOf(doc[j].ch)

\* the results of three chunks are in the document
C4_Witness ==
  /\ Len(doc) = 5
  /\ doc[1].ch = "1" /\ doc[3].ch = "2" /\ doc[5].ch = "3"


\* ==================================================== properties: the editor

Unedited(t) == {[edited |-> FALSE, time |-> t]}
Edited(t) == {[edited |-> TRUE, time |-> t]}
IsUnedited(c) == \E m \in c.marks : m.edited = FALSE
IsEdited(c) == \E m \in c.marks : m.edited = TRUE

\* characters i and j of d lie in one span: every character from one to the
\* other carries the same marks
SameSpan(d, i, j) ==
  /\ i \in 1..Len(d) /\ j \in 1..Len(d)
  /\ \A k \in Min(i, j)..Max(i, j) : d[k].marks = d[i].marks

\* C5: appendText never deletes, replaces or reorders a character of the
\* document: the document before the call is a prefix of the document
\* after it, whatever the user did before.
C5_NoClobber ==
  [][last'.op = "appendText" =>
       /\ Len(doc') > Len(doc)
       /\ SubSeq(doc', 1, Len(doc)) = doc]_vars

\* text was appended behind a character the user typed
C5_Witness ==
  /\ last.op = "appendText"
  /\ Len(doc) = 3
  /\ doc[1] = Char("u", NoMarks)

\* C6: appendText(text, t) leaves the old document followed by text alone
\* when the old document has no non-whitespace character, and by a space
\* plus text otherwise; the inserted characters, and only they, are newly
\* tagged {edited: false, time: t}.
C6_AppendResult ==
  [][last'.op = "appendText" =>
       LET visible == \E i \in 1..Len(doc) : doc[i].ch # " "
           ins == IF visible THEN <<" ">> \o last'.text ELSE last'.text
           n == Len(doc)
       IN /\ Len(doc') = n + Len(ins)
          /\ \A i \in 1..n : doc'[i] = doc[i]
          /\ \A k \in 1..Len(ins) :
               doc'[n + k] = [ch |-> ins[k], marks |-> Unedited(last'.time)]]_vars

\* text was appended to a document holding only spaces typed by the user
C6_Witness ==
  /\ last.op = "appendText"
  /\ last.time = 5000
  /\ doc = <<Char(" ", NoMarks), Char(" ", NoMarks), Char("m", Unedited(5000))>>

\* C7: the transaction of appendText flips nothing: right after it no
\* character is edited:true that was not so before, wherever the cursor
\* was, so the inserted span reads edited:false.
C7_JustInsertedGuard ==
  [][last'.op = "appendText" =>
       \A i \in 1..Len(doc') :
         IsEdited(doc'[i]) => (i <= Len(doc) /\ doc'[i] = doc[i])]_vars

\* an append behind an unedited span with the cursor at the end of the
\* document, which the insertion advanced
C7_Witness ==
  /\ last.op = "appendText"
  /\ Len(doc) = 3
  /\ selection = Cursor(Len(doc) + 1)
  /\ \A i \in 1..Len(doc) : IsUnedited(doc[i])
  /\ doc[1].marks # doc[3].marks

\* the selection s has entered the span of character i: a cursor strictly
\* inside it, or a range covering one of its characters
Entered(d, i, s) ==
  IF s.anchor = s.head
  THEN SameSpan(d, i, s.head - 1) /\ SameSpan(d, i, s.head)
  ELSE \E j \in SelFrom(s)..(SelTo(s) - 1) : SameSpan(d, i, j)

UserEdits == {"type", "backspace", "delete"}

\* the range [from, to) of the old document a user edit replaces, and the
\* number of characters it inserts there
EditFrom(op, s) ==
  IF op = "backspace" /\ s.anchor = s.head THEN s.head - 1 ELSE SelFrom(s)
EditTo(op, s) ==
  IF op = "delete" THEN s.head + 1 ELSE SelTo(s)
EditIns(op) == IF op = "type" THEN 1 ELSE 0

\* where character j of the old document stands after the edit
NewIndex(op, s, j) ==
  IF j < EditFrom(op, s) THEN j
  ELSE j - (EditTo(op, s) - EditFrom(op, s)) + EditIns(op)

Survives(op, s, j) == j < EditFrom(op, s) \/ j >= EditTo(op, s)

\* the edit touches the span of character i: it removes one of its
\* characters, or inserts strictly inside it
Touches(d, op, s, i) ==
  \/ \E j \in EditFrom(op, s)..(EditTo(op, s) - 1) : SameSpan(d, i, j)
  \/ /\ op = "type"
     /\ SameSpan(d, i, EditFrom(op, s) - 1) /\ SameSpan(d, i, EditFrom(op, s))

\* C9: a user edit that touches a character of a span tagged
\* {edited: false, time: t} turns the whole span (what is left of it) into
\* {edited: true, time: t}.
C9_EditReclassifies ==
  [][last'.op \in UserEdits =>
       \A i \in 1..Len(doc) : \A m \in doc[i].marks :
         (m.edited = FALSE /\ Touches(doc, last'.op, selection, i)
            /\ Survives(last'.op, selection, i))
           => doc'[NewIndex(last'.op, selection, i)].marks = Edited(m.time)]_vars

\* position q lies in or at the edge of the span of character j
AtSpan(d, j, q) ==
  IF q <= j THEN \A k \in q..j : d[k].marks = d[j].marks
  ELSE \A k \in j..(q - 1) : k <= Len(d) /\ d[k].marks = d[j].marks

\* C10: a user edit changes the provenance only of spans at its changed
\* range or at the resulting selection: an unedited character whose span
\* holds neither keeps edited:false and its time.
C10_ReclassificationScope ==
  [][last'.op \in UserEdits =>
       \A i \in 1..Len(doc) :
         (IsUnedited(doc[i]) /\ Survives(last'.op, selection, i)) =>
            LET j == NewIndex(last'.op, selection, i)
                from == EditFrom(last'.op, selection)
            IN \/ doc'[j] = doc[i]
               \/ \E q \in from..(from + EditIns(last'.op)) : AtSpan(doc', j, q)
               \/ \E q \in SelFrom(selection')..SelTo(selection') : AtSpan(doc', j, q)]_vars

\* a keystroke flipped the span it was typed into and left another
\* unedited span as it was
C10_Witness ==
  /\ last.op = "type"
  /\ last.changed
  /\ Len(doc) = 3
  /\ IsUnedited(doc[1])
  /\ IsEdited(doc[3])

C15_NoTextNoOp ==
  [][(last'.op = "settled" /\ last'.outcome \in {"empty", "transcribeThrows"})
       => /\ doc' = doc
          /\ selection' = selection
          /\ segments' = segments
          /\ ~last'.rejected]_vars

\* a result holding nothing but a tag between spaces settled while the
\* document already had text in it
C15_Witness ==
  /\ last.op = "settled"
  /\ last.outcome = "empty"
  /\ last.raw = <<" ", "[applaus]", " ">>
  /\ Len(doc) > 0

\* C16: after stopRecording the chunks still pending are dropped and never
\* reach the callback.  Chunks are enqueued only by a live processor, so once
\* recording is stopped with no processor live and no start under way,
\* whatever is pending was pending at a stop: no step may dispatch a chunk.
C16_StopDropsQueue ==
  [][(~isRecording /\ liveProcessors = {} /\ starting = 0)
       => invoked' = invoked]_vars

\* =================================================== properties: the worklet

IsAudioChunk(m) == m.type = "audioChunk"
IsAudioLevel(m) == m.type = "audioLevel"
Chunks(p) == SelectSeq(p, IsAudioChunk)
LevelEvents(p) == SelectSeq(p, IsAudioLevel)
IsSpeechSample(x) == Greater(x.level, speechThreshold)
SpeechIn(buf) == \E k \in 1..Len(buf) : IsSpeechSample(buf[k])

\* C12: the processor never posts silence: every audioChunk message holds at
\* least one sample of a frame whose RMS was above speechThreshold, so a run
\* of frames without speech posts no audioChunk whichever trigger flushes.
C12_SilenceNeverDispatched ==
  \A i \in 1..Len(port) : IsAudioChunk(port[i]) => SpeechIn(port[i].data)

\* a frame without speech made the processor flush a buffer of silence: the
\* buffer is gone and only the level message was posted
C12_Witness ==
  /\ last.op = "process"
  /\ last.input.length > 0
  /\ ~Greater(last.input.level, speechThreshold)
  /\ vadAudioBuffer = <<>>
  /\ chunkStartTime = currentTime
  /\ Len(Chunks(port)) = 0
  /\ Len(LevelEvents(port)) = 1

\* the time of the last speech sample of a buffer that holds one
LastSpeechAt(buf) ==
  buf[CHOOSE k \in 1..Len(buf) :
        /\ IsSpeechSample(buf[k])
        /\ \A j \in (k + 1)..Len(buf) : ~IsSpeechSample(buf[j])].t

\* the buffer as it is once the samples of the step's input are appended
WithInput == vadAudioBuffer \o Samples(last'.input, currentTime')

\* C13: while a buffer that holds speech is at least minChunkDurationMs old
\* and under maxChunkDurationMs and the byte ceiling, no chunk is posted
\* before the silence after its last speech frame reaches silenceDurationMs,
\* and at the frame where it does exactly one chunk is posted, holding every
\* sample from the start of the buffer to that frame; the buffer is emptied.
C13_UtteranceEmission ==
  [][(/\ last'.op = "process"
      /\ last'.input.present
      /\ SpeechIn(WithInput)
      /\ currentTime' - chunkStartTime >= minChunkDurationMs
      /\ currentTime' - chunkStartTime < maxChunkDurationMs
      /\ Len(WithInput) * bytesPerSample <= maxBufferSizeBytes)
       => IF currentTime' - LastSpeechAt(WithInput) >= silenceDurationMs
          THEN /\ Len(Chunks(port')) = 1
               /\ Chunks(port')[1].data = WithInput
               /\ vadAudioBuffer' = <<>>
          ELSE /\ Len(Chunks(port')) = 0
               /\ vadAudioBuffer' = WithInput]_vars

\* four frames of speech and one of silence, with silenceDurationMs = 500
\* and minChunkDurationMs = 1000: the fifth frame posts the five frames
C13_Witness ==
  /\ last.op = "process"
  /\ silenceDurationMs = 500
  /\ minChunkDurationMs = 1000
  /\ currentTime = 5 * FrameMs
  /\ Len(Chunks(port)) = 1
  /\ Len(Chunks(port)[1].data) = 5 * FrameSamples
  /\ \A k \in 1..(4 * FrameSamples) : IsSpeechSample(Chunks(port)[1].data[k])
  /\ ~IsSpeechSample(Chunks(port)[1].data[5 * FrameSamples])

\* C14: the buffer never outgrows the ceiling: a process call that finds
\* the buffer within maxBufferSizeBytes leaves it within maxBufferSizeBytes
\* and posts no chunk larger than maxBufferSizeBytes.
C14_BufferCeiling ==
  [][(/\ last'.op = "process"
      /\ Len(vadAudioBuffer) * bytesPerSample <= maxBufferSizeBytes)
       => /\ Len(vadAudioBuffer') * bytesPerSample <= maxBufferSizeBytes
          /\ \A i \in 1..Len(port') :
               IsAudioChunk(port'[i])
                 => Len(port'[i].data) * bytesPerSample <= maxBufferSizeBytes]_vars

\* a process call that appended samples and left the buffer empty flushed it
Flushed ==
  /\ last'.op = "process"
  /\ last'.input.length > 0
  /\ vadAudioBuffer' = <<>>

\* C17 as stated: after every flush the buffer is empty, chunkStartTime and
\* lastSpeechTime are both the time of the flush and chunkHasSpeech is false.
C17_FlushReset ==
  [][Flushed => /\ chunkStartTime' = currentTime'
                /\ lastSpeechTime' = currentTime'
                /\ ~chunkHasSpeech']_vars

\* C17 amended: after every flush the buffer is empty, chunkStartTime is the
\* time of the flush and chunkHasSpeech is false; lastSpeechTime is not
\* reset: it is the time of the flushing frame only if that frame was
\* speech, and otherwise what it was before.
C17_FlushResetAmended ==
  [][Flushed => /\ chunkStartTime' = currentTime'
                /\ ~chunkHasSpeech'
                /\ lastSpeechTime' =
                     IF Greater(last'.input.level, speechThreshold)
                     THEN currentTime' ELSE lastSpeechTime]_vars

\* a silent frame flushed a chunk of speech: lastSpeechTime stayed behind
C17_Witness ==
  /\ last.op = "process"
  /\ last.input.length > 0
  /\ vadAudioBuffer = <<>>
  /\ Len(Chunks(port)) = 1
  /\ chunkStartTime = currentTime
  /\ lastSpeechTime < currentTime
  /\ ~chunkHasSpeech

\* C18: whenever the buffer is marked as holding speech, the last speech
\* frame is not older than the start of the chunk.
C18_TimingInvariant == chunkHasSpeech => lastSpeechTime >= chunkStartTime

\* speech arrived in a chunk that started after an earlier flush or reset
C18_Witness ==
  /\ chunkHasSpeech
  /\ chunkStartTime > 0
  /\ lastSpeechTime > chunkStartTime
  /\ last.op = "process"

\* the step posted exactly one audioLevel message, and it carries the
\* classification of the step's input (RMS > speechThreshold)
OneLevelEvent ==
  /\ Len(LevelEvents(port')) = 1
  /\ LevelEvents(port')[1].hasSpeech
       = Greater(calculateRMS(last'.input), speechThreshold)

FlushDue ==
  \/ /\ currentTime' - lastSpeechTime >= silenceDurationMs
     /\ currentTime' - chunkStartTime >= minChunkDurationMs
  \/ currentTime' - chunkStartTime >= maxChunkDurationMs

\* C20: a frame tick with missing or empty input is processed as a silent
\* frame: it is classified as non-speech, the duration and silence flush
\* tests run for the tick (a due flush empties the buffer and restarts the
\* chunk), and one speech-presence event with isSpeech = false is posted.
C20_MalformedIsSilence ==
  [][(last'.op = "process" /\ last'.input.length = 0)
       => /\ Len(LevelEvents(port')) = 1
          /\ ~LevelEvents(port')[1].hasSpeech
          /\ lastSpeechTime' = lastSpeechTime
          /\ FlushDue => (vadAudioBuffer' = <<>> /\ chunkStartTime' = currentTime')]_vars

\* ============================================ properties: timestamp markers

\* neither the element before the cursor nor the one behind it has a mark
NoTimeAtCursor ==
  \A i \in 1..Len(doc) :
    i \in {SelFrom(selection) - 1, SelFrom(selection)} => doc[i].marks = NoMarks

\* C21: when the text at the cursor carries no time metadata, inserting a
\* timestamp marker (by the editor's insertTimestampAtCursor or by the
\* page's button) leaves the document unchanged.
C21_TimestampNoOp ==
  [][(last'.op \in {"insertTimestampAtCursor", "timestampButton"}
        /\ NoTimeAtCursor)
       => doc' = doc]_vars

\* ================================================ properties: a missing editor

\* C22: a transcription result that arrives for the editor while there is no
\* editor (the component is unmounted, or useEditor has not created it yet)
\* is dropped without error: handleAudioChunk resolves, and the document,
\* the selection, the editor and the segment list are left as they were.
C22_MissingEditorNoOp ==
  [][(/\ last'.op = "settled"
      /\ last'.outcome = "text"
      /\ last'.mode = "editor"
      /\ editor = Null)
       => /\ doc' = doc
          /\ selection' = selection
          /\ editor' = editor
          /\ segments' = segments
          /\ ~last'.rejected]_vars

\* a text for the editor settled while the mounted component had no editor yet
C22_Witness ==
  /\ last.op = "settled"
  /\ last.outcome = "text"
  /\ last.mode = "editor"
  /\ viewMode = "editor"
  /\ editor = Null


\* =========================================== properties: the capture session

NoSessionRefs ==
  /\ ~streamRef
  /\ ~audioContextRef
  /\ ~sourceRef
  /\ processorRef = 0

\* C23: when a startRecording call that found no session fails, at whatever
\* statement, the error is set, the promise rejects, isRecording stays false
\* and no stream, audio context, source or processor reference is retained.
C23_FailureNoSession ==
  [][(last'.op = "recordingFailed" /\ last.op # "recordingFailed"
        /\ ~isRecording /\ NoSessionRefs)
       => (/\ error' # Null
           /\ last'.rejected
           /\ ~isRecording'
           /\ NoSessionRefs')]_vars

\* the chunks sendChunk has emitted that are still held: queued or in flight
HeldChunks ==
  {pendingChunksRef[i] : i \in DOMAIN pendingChunksRef}
    \cup {call.chunk : call \in inflight}

\* C25: stopRecording empties the audio buffer, a start that completes
\* begins with an empty buffer and fresh VAD timers, and no emitted chunk
\* holds input blocks of two different recording sessions.
C25_NoSessionMix ==
  /\ (last.op = "stopRecording" => audioBuffer = EmptyBag)
  /\ (last.op = "recordingStarted"
        => /\ audioBuffer = EmptyBag
           /\ chunkStartTimeRef = clock
           /\ lastSpeechTimeRef = clock)
  /\ \A c \in HeldChunks : Cardinality(BagToSet(c.data)) <= 1

\* =============================================== properties: a stuck call

\* C27: in every step in which the call in flight does not complete,
\* isProcessingRef stays true, no chunk is dispatched, and the pending list
\* keeps every chunk it held, in order, new chunks only being appended.
C27_StuckCallStalls ==
  [][(inflight # {} /\ inflight \subseteq inflight')
       => (/\ isProcessingRef'
           /\ invoked' = invoked
           /\ Len(pendingChunksRef') >= Len(pendingChunksRef)
           /\ SubSeq(pendingChunksRef', 1, Len(pendingChunksRef)) = pendingChunksRef)]_vars

\* two chunks were enqueued behind a call that is still in flight
C27_Witness ==
  /\ inflight # {}
  /\ isProcessingRef
  /\ invoked = <<1>>
  /\ Len(pendingChunksRef) = 2
  /\ pendingChunksRef[1].id = 2 /\ pendingChunksRef[2].id = 3
  /\ last.op = "audioProcess"
  /\ last.sent

\* ============================================ properties: draining to idle

Idle ==
  /\ ~isProcessingRef
  /\ pendingChunksRef = <<>>

ChunkSent == last.op = "audioProcess" /\ last.sent

\* C24: when every call completes and the enqueues stop, the queue reaches
\* isProcessingRef = false with no pending chunk for good, and an idle queue
\* is left only by a step that enqueues a chunk.
C24_DrainsToIdle ==
  /\ <>[]Idle
  /\ [][(Idle /\ ~Idle') => ChunkSent']_vars

\* the queue is idle again after every chunk of the run went through it
C24_Witness ==
  /\ Idle
  /\ inflight = {}
  /\ nextChunk > MaxChunks
  /\ Len(invoked) = MaxChunks
  /\ last.op = "settled"

\* =========================================== properties: the speech indicator

\* C26: at most one timeout is pending, and it is the one the ref holds; a
\* timeout that runs publishes the latest raw speech state, never a value
\* that was superseded; and once the raw state has not changed for the
\* debounce window and the timeout due by then has run, the published state
\* equals it.
C26_SingleSlot ==
  /\ [](Cardinality(timers) <= 1)
  /\ [](\A t \in timers : t.id = speechDebounceTimerRef)
  /\ [][last'.op = "timeout" /\ timers' # timers
         => publishedHasSpeech' = lastSpeechStateRef]_vars
  /\ [](\A t \in timers : t.due = rawChangedAt + SpeechDebounceMs)
  /\ [](timerClock - rawChangedAt >= SpeechDebounceMs
           /\ (\A t \in timers : t.due > timerClock)
         => publishedHasSpeech = lastSpeechStateRef)

\* a change of the raw state replaced a pending timeout, and the raw state
\* then stayed the same for the window, after which its timeout ran
C26_Witness ==
  /\ nextTimer > 3
  /\ rawChangedAt > 0
  /\ rawChangedAt < SpeechDebounceMs
  /\ timerClock - rawChangedAt >= SpeechDebounceMs
  /\ last.op = "timeout"
  /\ timers = {}
  /\ lastSpeechStateRef

\* ============================================ properties: chunk durations

\* a process call that had an input channel
ProcessedFrame == last'.op = "process" /\ last'.input.present

\* the processor as the duration checks of this call find it
BeforeDurationCheck ==
  SizeChecked(Appended(Processor, last'.input, currentTime'), currentTime')

\* the flush of this call: the buffer is emptied and the chunk restarted;
\* the buffer st is posted if it holds speech and dropped otherwise
FlushedNow(st) ==
  /\ vadAudioBuffer' = <<>>
  /\ chunkStartTime' = currentTime'
  /\ Chunks(port') = Chunks(st.port)
       \o (IF Len(st.audioBuffer) > 0 /\ st.chunkHasSpeech
           THEN <<[type |-> "audioChunk", data |-> st.audioBuffer,
                   timestamp |-> currentTime']>>
           ELSE <<>>)

\* C28 as stated: a frame on which the chunk has lasted maxChunkDurationMs
\* flushes the buffer; after each processed frame the chunk is younger than
\* maxChunkDurationMs; and no posted chunk spans more than
\* maxChunkDurationMs plus one frame interval.
C28_MaxDurationCap ==
  [][ProcessedFrame
       => /\ (currentTime' - BeforeDurationCheck.chunkStartTime >= maxChunkDurationMs
                => FlushedNow(BeforeDurationCheck))
          /\ currentTime' - chunkStartTime' < maxChunkDurationMs
          /\ (Len(Chunks(port')) > 0
                => currentTime' - chunkStartTime <= maxChunkDurationMs + FrameMs)]_vars

\* C28 amended: the same, the span of a posted chunk being bounded by
\* maxChunkDurationMs plus the time since the call before only when that
\* call left the chunk younger than the maxChunkDurationMs now in force
\* (a configure message has not lowered it below the chunk's age, and no
\* call without input channel let the chunk age unchecked).
C28_MaxDurationCapAmended ==
  [][ProcessedFrame
       => /\ (currentTime' - BeforeDurationCheck.chunkStartTime >= maxChunkDurationMs
                => FlushedNow(BeforeDurationCheck))
          /\ currentTime' - chunkStartTime' < maxChunkDurationMs
          /\ (Len(Chunks(port')) > 0 /\ currentTime - chunkStartTime < maxChunkDurationMs
                => currentTime' - chunkStartTime
                     < maxChunkDurationMs + (currentTime' - currentTime))]_vars

\* four frames of speech with maxChunkDurationMs = 2000: the fourth frame
\* finds the chunk 2000 ms old and posts it
C28_Witness ==
  /\ last.op = "process"
  /\ last.input.present
  /\ maxChunkDurationMs = 2000
  /\ currentTime = 2000
  /\ chunkStartTime = currentTime
  /\ vadAudioBuffer = <<>>
  /\ Len(Chunks(port)) = 1
  /\ Len(Chunks(port)[1].data) = 4 * FrameSamples
  /\ \A k \in 1..(4 * FrameSamples) : IsSpeechSample(Chunks(port)[1].data[k])

\* the appended buffer exceeds the byte ceiling in this call
Overflow == Len(WithInput) * bytesPerSample > maxBufferSizeBytes

\* C29: with minChunkDurationMs <= maxChunkDurationMs, a chunk posted by a
\* call in which the byte ceiling is not exceeded is at least
\* minChunkDurationMs old, and a call that finds the chunk younger than
\* that flushes nothing, however long the silence has lasted.
C29_MinimumDuration ==
  [][(/\ ProcessedFrame
      /\ minChunkDurationMs <= maxChunkDurationMs
      /\ ~Overflow)
       => /\ (Len(Chunks(port')) > 0
                => currentTime' - chunkStartTime >= minChunkDurationMs)
          /\ (currentTime' - chunkStartTime < minChunkDurationMs
                => /\ Len(Chunks(port')) = 0
                   /\ vadAudioBuffer' = WithInput
                   /\ chunkStartTime' = chunkStartTime)]_vars

\* one frame of speech and five of silence under the default configuration:
\* the silence lasted silenceDurationMs after four frames, and the chunk was
\* closed only when it was minChunkDurationMs old
C29_Witness ==
  /\ last.op = "process"
  /\ silenceDurationMs = DefaultSilenceDurationMs
  /\ minChunkDurationMs = DefaultMinChunkDurationMs
  /\ maxChunkDurationMs = DefaultMaxChunkDurationMs
  /\ maxBufferSizeBytes = DefaultMaxBufferSizeBytes
  /\ currentTime = DefaultMinChunkDurationMs
  /\ Len(Chunks(port)) = 1
  /\ Len(Chunks(port)[1].data) = 6 * FrameSamples
  /\ IsSpeechSample(Chunks(port)[1].data[1])
  /\ \A k \in (FrameSamples + 1)..(6 * FrameSamples) :
       ~IsSpeechSample(Chunks(port)[1].data[k])

\* C30: a process call posts at most one audioChunk message; when the byte
\* ceiling forces a flush, that flush is the only one of the call and the
\* silence and duration checks of the same call post nothing.
C30_OverflowPriority ==
  [][last'.op = "process"
       => /\ Len(Chunks(port')) <= 1
          /\ (last'.input.present /\ Overflow
                => /\ Chunks(port')
                       = Chunks(ProcessorSendChunk(
                                  Appended(Processor, last'.input, currentTime'),
                                  currentTime').port)
                   /\ vadAudioBuffer' = <<>>
                   /\ chunkStartTime' = currentTime')]_vars

\* the byte ceiling of 16 bytes forced the flush of three frames on a call
\* in which the chunk had also reached its maximum duration
C30_Witness ==
  /\ last.op = "process"
  /\ maxBufferSizeBytes = 16
  /\ maxChunkDurationMs = 2000
  /\ Len(Chunks(port)) = 1
  /\ currentTime - (Chunks(port)[1].data[1].t - FrameMs) >= maxChunkDurationMs
  /\ Len(Chunks(port)[1].data) * bytesPerSample > maxBufferSizeBytes
  /\ vadAudioBuffer = <<>>

\* ===================================== properties: silence in the capture hook

\* C31: when onaudioprocess flushes a buffer in which no block was above
\* speechThreshold (the last speech is not later than the start of the
\* chunk), the buffer is dropped: nothing is pushed on pendingChunksRef and
\* onAudioChunk is not called.
C31_SilentBufferDiscarded ==
  [][(/\ last'.op = "audioProcess"
      /\ last'.sent
      /\ clock' > clock
      /\ lastSpeechTimeRef' <= chunkStartTimeRef)
       => (/\ pendingChunksRef' = pendingChunksRef
           /\ invoked' = invoked
           /\ nextChunk' = nextChunk)]_vars

\* ============================================ properties: sample conservation

\* C32: without a reset, every step conserves the samples: a process call
\* either keeps the buffer followed by the samples of its input as the new
\* buffer and posts no chunk, or flushes exactly that sequence (posting it
\* as the one chunk of the call, or dropping it) and leaves the buffer empty;
\* a configure message leaves the buffer alone.  So the flushed buffers
\* followed by the current buffer are the input samples, in order, and each
\* chunk is a contiguous run of them.
C32_SampleConservation ==
  [][/\ (last'.op = "process"
          => \/ /\ vadAudioBuffer' = WithInput
                /\ Len(Chunks(port')) = 0
             \/ /\ vadAudioBuffer' = <<>>
                /\ Len(Chunks(port')) <= 1
                /\ \A i \in 1..Len(Chunks(port')) : Chunks(port')[i].data = WithInput)
     /\ (last'.op = "configure" => vadAudioBuffer' = vadAudioBuffer)]_vars

\* a second chunk was posted: it starts with the first sample after the
\* flush before it and holds the samples of two frames
C32_Witness ==
  /\ last.op = "process"
  /\ vadAudioBuffer = <<>>
  /\ Len(Chunks(port)) = 1
  /\ Len(Chunks(port)[1].data) = 2 * FrameSamples
  /\ Chunks(port)[1].data[1].t > FrameMs
  /\ Chunks(port)[1].data[2 * FrameSamples].t = currentTime
  /\ Chunks(port)[1].data[1].t < currentTime


\* ====================== the whisper worker's post-processing (pure part)

\* A transcription is a sequence of elements: an ASCII letter, a digit, a
\* letter outside ASCII, a punctuation mark of the class [.,!?;:-], a sign
\* outside that class, a blank, and the phrases the hallucination patterns
\* look for (each one element).
Letter == "a"
Digit == "7"
Accented == "U+00E9"
Dot == "."
Note == "U+266A"
Blank == " "
Copyright == "(C)"
TvGelderland == "TV GELDERLAND 2024"
Ondertiteling == "Ondertiteling"
TextElements ==
  {Letter, Digit, Accented, Dot, Note, Blank, Copyright, TvGelderland, Ondertiteling}

\* /[a-zA-Z0-9]/.test(element)
IsAsciiAlnum(c) == c \in {Letter, Digit, Copyright, TvGelderland, Ondertiteling}

\* an element of the class [\s.,!?;:-]
IsEdgePunctuation(c) == c \in {Blank, Dot}

\* replace(/\(C\)\s*TV\s+GELDERLAND\s+\d{4}/gi, '')
RECURSIVE RemoveCopyrightTv(_)
RemoveCopyrightTv(t) ==
  IF Len(t) = 0 THEN t
  ELSE LET rest == TrimStart(Tail(t))
       IN IF Head(t) = Copyright /\ Len(rest) > 0 /\ Head(rest) = TvGelderland
          THEN RemoveCopyrightTv(Tail(rest))
          ELSE <<Head(t)>> \o RemoveCopyrightTv(Tail(t))

IsNotTv(c) == c # TvGelderland

\* replace(/TV\s+GELDERLAND\s+\d{4}/gi, '')
RemoveTv(t) == SelectSeq(t, IsNotTv)

\* replace(/Ondertiteling\s*.*$/gi, ''), and the same for Ondertitels and
\* Bijdrage: everything from the first such word to the end goes
RECURSIVE RemoveFromKeyword(_)
RemoveFromKeyword(t) ==
  IF Len(t) = 0 \/ Head(t) = Ondertiteling THEN <<>>
  ELSE <<Head(t)>> \o RemoveFromKeyword(Tail(t))

\* the loop over hallucinationPatterns, each replace followed by trim()
HallucinationsRemoved(text) ==
  Trim(RemoveFromKeyword(Trim(RemoveTv(Trim(RemoveCopyrightTv(text))))))

RECURSIVE StripStart(_)
StripStart(t) ==
  IF Len(t) > 0 /\ IsEdgePunctuation(Head(t)) THEN StripStart(Tail(t)) ELSE t

RECURSIVE StripEnd(_)
StripEnd(t) ==
  IF Len(t) > 0 /\ IsEdgePunctuation(t[Len(t)])
  THEN StripEnd(SubSeq(t, 1, Len(t) - 1)) ELSE t

\* cleanedText.replace(/^[\s.,!?;:-]+|[\s.,!?;:-]+$/g, '').trim()
CleanedForCheck(cleanedText) == Trim(StripEnd(StripStart(cleanedText)))

HasAsciiAlnum(t) == \E i \in 1..Len(t) : IsAsciiAlnum(t[i])

\* a filter that only tests the length of cleanedForCheck
PostProcessLengthOnly(text) ==
  LET cleanedText == HallucinationsRemoved(text)
  IN IF Len(CleanedForCheck(cleanedText)) = 0 THEN <<>> ELSE cleanedText

\* data.text of the result message for a model output `text`
PostProcess(text) ==
  LET cleanedText == HallucinationsRemoved(text)
      cleanedForCheck == CleanedForCheck(cleanedText)
  IN IF Len(cleanedForCheck) = 0 \/ ~HasAsciiAlnum(cleanedForCheck)
     THEN <<>> ELSE cleanedText

\* every model output of at most MaxTextLen elements
RECURSIVE TextsOfLength(_)
TextsOfLength(n) ==
  IF n = 0 THEN {<<>>}
  ELSE {Append(t, c) : t \in TextsOfLength(n - 1), c \in TextElements}

WhisperTexts == UNION {TextsOfLength(n) : n \in 0..MaxTextLen}

\* the post-processing of every model output, tabulated
ResultText == [text \in WhisperTexts |-> PostProcess(text)]

\* ================= useWhisperTranscription and the whisper worker (steps)

SAMPLE_RATE == 16000

\* Math.floor((MIN_CHUNK_DURATION_MS / 1000) * SAMPLE_RATE)
MIN_SAMPLES == (MIN_CHUNK_DURATION_MS * SAMPLE_RATE) \div 1000

\* audioData of a transcribe call: null/undefined, or an array of a length
AudioDatas ==
  {[present |-> FALSE, length |-> 0]}
    \cup {[present |-> TRUE, length |-> n] :
            n \in {0, MIN_SAMPLES - 1, MIN_SAMPLES, MIN_SAMPLES + 1}}

\* what the model can decode in a step-by-step run
WhisperOutputs == {<<Letter>>, <<Dot>>}

whisperFrame ==
  UNCHANGED <<hookVars, queueVars, pageVars, editorVars, vadVars, debounceVars,
              speakerVars, storageVars, clock, starts>>

LoadMessage == [type |-> "load", call |-> 0]
TranscribeMessage(c) == [type |-> "transcribe", call |-> c]
Reply(type, c, text, needsReload) ==
  [type |-> type, call |-> c, text |-> text, needsReload |-> needsReload]

\* the promise of one transcribe call, with its two listeners
Promise(state, listening) ==
  [state |-> state, value |-> <<>>, onMessage |-> listening, onError |-> listening]

\* resolve(value): settles a pending promise, does nothing to a settled one
Resolve(pr, value) ==
  IF pr.state = "pending"
  THEN [pr EXCEPT !.state = "resolved", !.value = value] ELSE pr

\* a handler that rejects on the worker's error message
HandleMessageRejecting(pr, msg) ==
  IF ~pr.onMessage THEN pr
  ELSE IF msg.type = "result"
       THEN Resolve([pr EXCEPT !.onMessage = FALSE], msg.text)
       ELSE IF msg.type = "error"
            THEN [pr EXCEPT !.onMessage = FALSE, !.onError = FALSE,
                            !.state = IF @ = "pending" THEN "rejected" ELSE @]
            ELSE pr

\* handleMessage of one call, while it is registered
HandleMessage(pr, msg) ==
  IF ~pr.onMessage THEN pr
  ELSE IF msg.type = "result"
       THEN Resolve([pr EXCEPT !.onMessage = FALSE], msg.text)
       ELSE IF msg.type = "error"
            THEN Resolve([pr EXCEPT !.onMessage = FALSE], <<>>)
            ELSE pr

\* handleError of one call, while it is registered
HandleError(pr) ==
  IF ~pr.onError THEN pr
  ELSE Resolve([pr EXCEPT !.onMessage = FALSE, !.onError = FALSE], <<>>)

\* a loadModel without its first test
LoadModelGuardNone == FALSE

\* if (workerRef.current || isModelLoading) return
LoadModelGuard == workerRef # Null \/ isModelLoading

\* loadModel(), called by the page's effect or its button (the component is
\* mounted); `throws`: the Worker constructor throws
LoadModel(throws) ==
  /\ mounted
  /\ IF LoadModelGuard
     THEN /\ UNCHANGED <<whisperVars, workerVars>>
          /\ last' = [op |-> "loadModel", ran |-> FALSE]
     ELSE /\ IF throws
             THEN /\ whisperError' = "Failed to load Whisper model"
                  /\ isModelLoading' = FALSE
                  /\ UNCHANGED <<workerRef, workersCreated, toWorker>>
             ELSE /\ whisperError' = Null
                  /\ isModelLoading' = TRUE
                  /\ workerRef' = "worker"
                  /\ workersCreated' = workersCreated + 1
                  /\ toWorker' = Append(toWorker, LoadMessage)
          /\ UNCHANGED <<isModelLoaded, mounted, promises, tokenizer, processor,
                         model, fromPretrained, toMain, running, answered>>
          /\ last' = [op |-> "loadModel", ran |-> TRUE]
  /\ whisperFrame

\* a test that also turns away a chunk of exactly MIN_SAMPLES samples
TooShortInclusive(audioData) ==
  ~audioData.present \/ audioData.length <= MIN_SAMPLES

\* !audioData || audioData.length < MIN_SAMPLES
TooShort(audioData) == ~audioData.present \/ audioData.length < MIN_SAMPLES

\* transcribe(audioData)
Transcribe(audioData) ==
  /\ Len(promises) < MaxCalls
  /\ IF workerRef = Null
     THEN /\ promises' = Append(promises, Promise("rejected", FALSE))
          /\ UNCHANGED toWorker
     ELSE IF TooShort(audioData)
          THEN /\ promises' = Append(promises, Promise("resolved", FALSE))
               /\ UNCHANGED toWorker
          ELSE /\ promises' = Append(promises, Promise("pending", TRUE))
               /\ toWorker' = Append(toWorker, TranscribeMessage(Len(promises) + 1))
  /\ last' = [op |-> "transcribe", call |-> Len(promises) + 1,
              audio |-> audioData, posted |-> toWorker' # toWorker]
  /\ UNCHANGED <<workerRef, isModelLoading, isModelLoaded, whisperError, mounted,
                 workersCreated, tokenizer, processor, model, fromPretrained,
                 toMain, running, answered>>
  /\ whisperFrame

\* a message of the worker reaches the main thread: onmessage and every
\* registered handleMessage run
MessageFromWorker ==
  /\ Len(toMain) > 0
  /\ LET msg == Head(toMain)
     IN /\ toMain' = Tail(toMain)
        /\ isModelLoaded' = (isModelLoaded \/ msg.type = "loaded")
        /\ isModelLoading' = (isModelLoading /\ msg.type # "loaded")
        /\ promises' = [c \in DOMAIN promises |-> HandleMessage(promises[c], msg)]
        /\ last' = [op |-> "messageFromWorker", msg |-> msg]
  /\ UNCHANGED <<workerRef, whisperError, mounted, workersCreated, tokenizer,
                 processor, model, fromPretrained, toWorker, running, answered>>
  /\ whisperFrame

\* an ErrorEvent on the worker: onerror and every registered handleError run
WorkerErrorEvent ==
  /\ workerRef # Null
  /\ whisperError' = "Worker error"
  /\ isModelLoading' = FALSE
  /\ promises' = [c \in DOMAIN promises |-> HandleError(promises[c])]
  /\ last' = [op |-> "workerErrorEvent"]
  /\ UNCHANGED <<workerRef, isModelLoaded, mounted, workersCreated, workerVars>>
  /\ whisperFrame

\* the cleanup of the hook's effect: the worker is terminated, and with it
\* every message still on its way
Unmount ==
  /\ mounted
  /\ mounted' = FALSE
  /\ workerRef' = Null
  /\ IF workerRef # Null
     THEN /\ toWorker' = <<>>
          /\ toMain' = <<>>
          /\ running' = {}
     ELSE UNCHANGED <<toWorker, toMain, running>>
  /\ last' = [op |-> "unmount"]
  /\ UNCHANGED <<isModelLoading, isModelLoaded, whisperError, promises,
                 workersCreated, tokenizer, processor, model, fromPretrained,
                 answered>>
  /\ whisperFrame

\* WhisperPipeline.getInstance: the handle after the call
GetInstance(handle) == IF handle = 0 THEN fromPretrained + 1 ELSE handle

\* the worker's message listener up to its first await: getInstance runs
\* synchronously inside load / transcribe
WorkerReceives ==
  /\ Len(toWorker) > 0
  /\ toWorker' = Tail(toWorker)
  /\ tokenizer' = GetInstance(tokenizer)
  /\ processor' = GetInstance(processor)
  /\ model' = GetInstance(model)
  /\ fromPretrained' = IF 0 \in {tokenizer, processor, model}
                       THEN fromPretrained + 1 ELSE fromPretrained
  /\ running' = running \cup {Head(toWorker)}
  /\ last' = [op |-> "workerReceives", msg |-> Head(toWorker),
              loads |-> (0 \in {tokenizer, processor, model})]
  /\ UNCHANGED <<whisperVars, toMain, answered>>
  /\ whisperFrame

\* the load branch after WhisperPipeline.load has settled
WorkerLoadSettles(throws) ==
  /\ LoadMessage \in running
  /\ running' = running \ {LoadMessage}
  /\ toMain' = Append(toMain, IF throws THEN Reply("error", 0, <<>>, FALSE)
                               ELSE Reply("loaded", 0, <<>>, FALSE))
  /\ last' = [op |-> "workerLoadSettles", throws |-> throws]
  /\ UNCHANGED <<whisperVars, tokenizer, processor, model, fromPretrained,
                 toWorker, answered>>
  /\ whisperFrame

\* a catch block that leaves the handles alone
ResetOnErrorKeep(handle) == handle

\* WhisperPipeline.model = null (and tokenizer, processor) in the catch block
ResetOnError(handle) == 0

\* the transcribe branch after WhisperPipeline.transcribe has settled: the
\* result is post-processed and posted, or the catch block runs
WorkerTranscribeSettles(r, throws, text) ==
  /\ r \in running
  /\ r.type = "transcribe"
  /\ running' = running \ {r}
  /\ IF throws
     THEN /\ model' = ResetOnError(model)
          /\ tokenizer' = ResetOnError(tokenizer)
          /\ processor' = ResetOnError(processor)
          /\ toMain' = Append(toMain, Reply("error", r.call, <<>>, TRUE))
     ELSE /\ toMain' = Append(toMain, Reply("result", r.call, ResultText[text], FALSE))
          /\ UNCHANGED <<tokenizer, processor, model>>
  /\ answered' = Append(answered, r.call)
  /\ last' = [op |-> "workerTranscribeSettles", call |-> r.call, throws |-> throws,
              raw |-> text]
  /\ UNCHANGED <<whisperVars, fromPretrained, toWorker>>
  /\ whisperFrame

WorkerSettles ==
  \/ \E throws \in BOOLEAN : WorkerLoadSettles(throws)
  \/ \E r \in running : \E throws \in BOOLEAN : \E text \in WhisperOutputs :
       WorkerTranscribeSettles(r, throws, text)

NextWhisper ==
  \/ \E throws \in BOOLEAN : LoadModel(throws)
  \/ \E audioData \in AudioDatas : Transcribe(audioData)
  \/ MessageFromWorker
  \/ WorkerErrorEvent
  \/ Unmount
  \/ WorkerReceives
  \/ WorkerSettles

SpecWhisper == Init /\ [][NextWhisper]_vars

\* the try block of the transcribe branch for one decoded text, on its own
\* (one text per behaviour: the block keeps no state from call to call)
PostProcessed(text) ==
  /\ last.op = "init"
  /\ last' = [op |-> "postProcessed", raw |-> text,
              reply |-> Reply("result", 0, ResultText[text], FALSE)]
  /\ UNCHANGED <<whisperVars, workerVars>>
  /\ whisperFrame

NextPostProcess == \E text \in WhisperTexts : PostProcessed(text)

SpecPostProcess == Init /\ [][NextPostProcess]_vars

\* the worker serving a mounted hook, every message delivered and every
\* model call settling eventually
NextWorker ==
  \/ \E throws \in BOOLEAN : LoadModel(throws)
  \/ \E audioData \in AudioDatas : Transcribe(audioData)
  \/ MessageFromWorker
  \/ WorkerReceives
  \/ WorkerSettles

SpecWorker ==
  Init /\ [][NextWorker]_vars /\ WF_vars(WorkerReceives) /\ WF_vars(WorkerSettles)


\* ============================================ speakers and their segments

SpeakerNames == {"An", "Bo"}

speakerFrame ==
  UNCHANGED <<hookVars, queueVars, pageVars, editorVars, vadVars, debounceVars,
              whisperVars, workerVars, storageVars, clock, starts>>

SpeakerIds(list) == {list[i].id : i \in 1..Len(list)}
SegmentIds == {segmentList[i].id : i \in 1..Len(segmentList)}

\* Math.max(...speakers.map(s => s.id))
MaxId(list) == CHOOSE m \in SpeakerIds(list) : \A n \in SpeakerIds(list) : n <= m

\* prev.findIndex((seg) => seg.id === id), from 1; 0 for -1
FindIndex(segs, id) ==
  IF \E i \in 1..Len(segs) : segs[i].id = id
  THEN CHOOSE i \in 1..Len(segs) :
         segs[i].id = id /\ \A j \in 1..(i - 1) : segs[j].id # id
  ELSE 0

\* a new segment, from a transcribed chunk (speaker: null)
NewSegment ==
  /\ segmentsMade < MaxSegmentsMade
  /\ segmentsMade' = segmentsMade + 1
  /\ segmentList' = Append(segmentList, [id |-> segmentsMade + 1, speaker |-> 0])
  /\ last' = [op |-> "newSegment"]
  /\ UNCHANGED speakers
  /\ speakerFrame

\* handleDeleteSegment(id)
HandleDeleteSegment(id) ==
  /\ segmentList' = SelectSeq(segmentList, LAMBDA seg : seg.id # id)
  /\ last' = [op |-> "deleteSegment"]
  /\ UNCHANGED <<speakers, segmentsMade>>
  /\ speakerFrame

\* handleMergeSegment(id): the segment after `id` goes, `id` keeps its speaker
HandleMergeSegment(id) ==
  LET index == FindIndex(segmentList, id)
  IN /\ segmentList' =
          IF index = 0 \/ index = Len(segmentList) THEN segmentList
          ELSE SubSeq(segmentList, 1, index)
                 \o SubSeq(segmentList, index + 2, Len(segmentList))
     /\ last' = [op |-> "mergeSegment"]
     /\ UNCHANGED <<speakers, segmentsMade>>
     /\ speakerFrame

\* handleSplitSegment(id, cursorPosition) with text on both sides of the
\* cursor: the second half is a new segment that inherits the speaker
HandleSplitSegment(id) ==
  LET index == FindIndex(segmentList, id)
  IN /\ segmentsMade < MaxSegmentsMade
     /\ segmentsMade' = segmentsMade + 1
     /\ segmentList' =
          IF index = 0 THEN segmentList
          ELSE SubSeq(segmentList, 1, index)
                 \o <<[id |-> segmentsMade + 1, speaker |-> segmentList[index].speaker]>>
                 \o SubSeq(segmentList, index + 1, Len(segmentList))
     /\ last' = [op |-> "splitSegment"]
     /\ UNCHANGED speakers
     /\ speakerFrame

\* handleSpeakerChange(id, speaker), called by the dropdown of segment `id`
\* with a speaker of the list it was rendered with, or with null
HandleSpeakerChange(id, speaker) ==
  /\ segmentList' = [i \in 1..Len(segmentList) |->
                       IF segmentList[i].id = id
                       THEN [segmentList[i] EXCEPT !.speaker = speaker]
                       ELSE segmentList[i]]
  /\ last' = [op |-> "speakerChange", id |-> id, speaker |-> speaker]
  /\ UNCHANGED <<speakers, segmentsMade>>
  /\ speakerFrame

\* handleAddSpeaker(name)
HandleAddSpeaker(name) ==
  LET newId == IF Len(speakers) > 0 THEN MaxId(speakers) + 1 ELSE 1
  IN /\ newId <= MaxSpeakerId
     /\ speakers' = Append(speakers, [id |-> newId, name |-> name])
     /\ last' = [op |-> "addSpeaker", id |-> newId]
     /\ UNCHANGED <<segmentList, segmentsMade>>
     /\ speakerFrame

\* a removal that leaves the segments alone
UnassignedNone(segs, id) == segs

\* prev.map((seg) => (seg.speaker === id ? { ...seg, speaker: null } : seg))
Unassigned(segs, id) ==
  [i \in 1..Len(segs) |->
     IF segs[i].speaker = id THEN [segs[i] EXCEPT !.speaker = 0] ELSE segs[i]]

\* handleRemoveSpeaker(id)
HandleRemoveSpeaker(id) ==
  /\ speakers' = SelectSeq(speakers, LAMBDA s : s.id # id)
  /\ segmentList' = Unassigned(segmentList, id)
  /\ last' = [op |-> "removeSpeaker", id |-> id,
              unassigned |-> {segmentList[i].id :
                                i \in {j \in 1..Len(segmentList) :
                                         segmentList[j].speaker = id}}]
  /\ UNCHANGED segmentsMade
  /\ speakerFrame

\* handleRenameSpeaker(id, name)
HandleRenameSpeaker(id, name) ==
  /\ speakers' = [i \in 1..Len(speakers) |->
                    IF speakers[i].id = id
                    THEN [speakers[i] EXCEPT !.name = name] ELSE speakers[i]]
  /\ speakers' # speakers
  /\ last' = [op |-> "renameSpeaker", id |-> id]
  /\ UNCHANGED <<segmentList, segmentsMade>>
  /\ speakerFrame

NextSpeakers ==
  \/ NewSegment
  \/ \E id \in SegmentIds : HandleDeleteSegment(id)
  \/ \E id \in SegmentIds : HandleMergeSegment(id)
  \/ \E id \in SegmentIds : HandleSplitSegment(id)
  \/ \E id \in SegmentIds : \E speaker \in SpeakerIds(speakers) \cup {0} :
       HandleSpeakerChange(id, speaker)
  \/ \E name \in SpeakerNames : HandleAddSpeaker(name)
  \/ \E id \in SpeakerIds(speakers) : HandleRemoveSpeaker(id)
  \/ \E id \in SpeakerIds(speakers) : \E name \in SpeakerNames :
       HandleRenameSpeaker(id, name)

SpecSpeakers == Init /\ [][NextSpeakers]_vars


\* ========================================================= useLocalStorage

\* the values setStoredValue is called with (0 is initialValue)
StoredValues == 0..MaxStoredValue

\* JSON.stringify(value)
Stringify(value) == <<"json", value>>

storageFrame ==
  UNCHANGED <<hookVars, queueVars, pageVars, editorVars, vadVars, debounceVars,
              whisperVars, workerVars, speakerVars, clock, starts>>

\* an effect that does not return its cleanup
EffectNoCleanup(ts, value, now) ==
  ts \cup {[id |-> nextTimeoutId, value |-> value, due |-> now + debounceMs]}

\* the save effect for a new storedValue: the cleanup of the previous run
\* (clearTimeout(timeoutId)), then setTimeout(..., debounceMs)
Effect(ts, value, now) ==
  ClearTimeout(ts, timeoutId)
    \cup {[id |-> nextTimeoutId, value |-> value, due |-> now + debounceMs]}

\* the effect's first run, after the first render
SaveEffectMounts ==
  /\ timeoutId = 0
  /\ storageTimers' = Effect(storageTimers, storedValue, storageClock)
  /\ timeoutId' = nextTimeoutId
  /\ nextTimeoutId' = nextTimeoutId + 1
  /\ storedChangedAt' = storageClock
  /\ last' = [op |-> "saveEffectMounts"]
  /\ UNCHANGED <<storedValue, localStorageItem, storageClock, saveThrew>>
  /\ storageFrame

\* setStoredValue(value) with a value that is not the current one: the
\* render it causes and the effect run that follows
SetStoredValue(value) ==
  /\ timeoutId # 0
  /\ value # storedValue
  /\ nextTimeoutId <= MaxTimeouts
  /\ storedValue' = value
  /\ storageTimers' = Effect(storageTimers, value, storageClock)
  /\ timeoutId' = nextTimeoutId
  /\ nextTimeoutId' = nextTimeoutId + 1
  /\ storedChangedAt' = storageClock
  /\ last' = [op |-> "setStoredValue", cancelled |-> storageTimers \ storageTimers']
  /\ UNCHANGED <<localStorageItem, storageClock, saveThrew>>
  /\ storageFrame

\* the callback of timeout t: setItem(key, JSON.stringify(storedValue)) with
\* the storedValue of the render that set the timeout; `throws`: setItem (or
\* stringify) throws, which is caught and logged
SaveTimeoutFires(t, throws) ==
  /\ t \in storageTimers
  /\ t.due <= storageClock
  /\ storageTimers' = storageTimers \ {t}
  /\ localStorageItem' = IF throws THEN localStorageItem ELSE Stringify(t.value)
  /\ saveThrew' = throws
  /\ last' = [op |-> "saveTimeout", value |-> t.value, throws |-> throws]
  /\ UNCHANGED <<storedValue, timeoutId, storageClock, nextTimeoutId, storedChangedAt>>
  /\ storageFrame

\* time passes; a timeout that is due runs before time passes further
StorageTick ==
  /\ storageClock + StorageTickMs <= MaxStorageClock
  /\ \A t \in storageTimers : t.due > storageClock
  /\ storageClock' = storageClock + StorageTickMs
  /\ last' = [op |-> "storageTick"]
  /\ UNCHANGED <<storedValue, localStorageItem, storageTimers, timeoutId,
                 nextTimeoutId, storedChangedAt, saveThrew>>
  /\ storageFrame

NextStorage ==
  \/ SaveEffectMounts
  \/ \E value \in StoredValues : SetStoredValue(value)
  \/ \E t \in storageTimers : \E throws \in BOOLEAN : SaveTimeoutFires(t, throws)
  \/ StorageTick

SpecStorage == Init /\ [][NextStorage]_vars

\* C33: provenance is monotonic.  In every step a character that was tagged
\* edited:true and is still in the document is not tagged edited:false
\* afterwards, and every character tagged edited:false afterwards either
\* carried that tag before the step or was inserted by this appendText.
ReplacedFrom ==
  IF last'.op = "backspace" /\ selection.anchor = selection.head
  THEN selection.head - 1
  ELSE IF last'.op = "delete" THEN selection.head ELSE SelFrom(selection)

ReplacedTo == IF last'.op = "delete" THEN selection.head + 1 ELSE SelTo(selection)

ReplacingOps ==
  {"type", "backspace", "delete", "insertTimestampAtCursor", "timestampButton"}

\* where character i of the old document is in the new one (0: deleted)
Survivor(i) ==
  IF last'.op \in ReplacingOps /\ doc' # doc
  THEN IF i < ReplacedFrom THEN i
       ELSE IF i >= ReplacedTo THEN i + Len(doc') - Len(doc) ELSE 0
  ELSE IF i <= Len(doc') THEN i ELSE 0

Requested(c) == \E i \in 1..Len(toWorker) : toWorker[i] = TranscribeMessage(c)

Answered(c) == \E i \in 1..Len(answered) : answered[i] = c

HandlesNull == tokenizer = 0 /\ processor = 0 /\ model = 0

C34_WorkerReplyProtocol ==
  /\ [](\A i, j \in 1..Len(answered) : answered[i] = answered[j] => i = j)
  /\ [][last'.op = "workerTranscribeSettles"
          => /\ Len(toMain') = Len(toMain) + 1
             /\ answered' = Append(answered, last'.call)
             /\ LET reply == toMain'[Len(toMain')]
                IN /\ reply.call = last'.call
                   /\ IF last'.throws
                      THEN reply.type = "error" /\ reply.needsReload /\ HandlesNull'
                      ELSE reply.type = "result"]_vars
  /\ [][(last'.op = "workerReceives" /\ HandlesNull)
          => /\ fromPretrained' = fromPretrained + 1
             /\ tokenizer' = fromPretrained' /\ processor' = fromPretrained'
             /\ model' = fromPretrained']_vars
  /\ \A c \in 1..MaxCalls : Requested(c) ~> Answered(c)

C34_Witness ==
  /\ last.op = "workerReceives"
  /\ last.msg.type = "transcribe"
  /\ last.loads
  /\ Len(answered) > 0
  /\ fromPretrained > 1

\* C35: transcribe never rejects once a worker exists.  A promise is rejected
\* only by a call made with no worker; a settled promise never changes; a
\* worker error message or an ErrorEvent resolves every pending promise with
\* the empty string and a result message resolves it with the result text.
Pending(c) == promises[c].state = "pending"

ResolvedWith(c, value) ==
  promises'[c].state = "resolved" /\ promises'[c].value = value

C35_TranscribeNeverRejects ==
  [][/\ \A c \in DOMAIN promises' :
          promises'[c].state = "rejected"
            => \/ c \in DOMAIN promises /\ promises[c].state = "rejected"
               \/ last'.op = "transcribe" /\ last'.call = c /\ workerRef = Null
     /\ \A c \in DOMAIN promises :
          ~Pending(c) => /\ promises'[c].state = promises[c].state
                         /\ promises'[c].value = promises[c].value
     /\ (last'.op = "messageFromWorker" /\ last'.msg.type = "error")
          => \A c \in DOMAIN promises : Pending(c) => ResolvedWith(c, <<>>)
     /\ last'.op = "workerErrorEvent"
          => \A c \in DOMAIN promises : Pending(c) => ResolvedWith(c, <<>>)
     /\ (last'.op = "messageFromWorker" /\ last'.msg.type = "result")
          => \A c \in DOMAIN promises : Pending(c) => ResolvedWith(c, last'.msg.text)]_vars

C35_Witness ==
  /\ last.op = "messageFromWorker"
  /\ last.msg.type = "error"
  /\ last.msg.needsReload
  /\ Len(promises) = MaxCalls
  /\ promises[1].state = "resolved" /\ promises[1].value = <<Letter>>
  /\ promises[MaxCalls].state = "resolved" /\ promises[MaxCalls].value = <<>>

\* C36 as stated: every transcribe call with a chunk of fewer than MIN_SAMPLES
\* samples resolves with the empty string and posts nothing to the worker,
\* and every call with a chunk of at least MIN_SAMPLES samples posts a
\* transcribe message.
C36_ShortChunkRejection ==
  [][(last'.op = "transcribe" /\ last'.audio.present)
       => IF last'.audio.length < MIN_SAMPLES
          THEN /\ ResolvedWith(last'.call, <<>>)
               /\ toWorker' = toWorker
          ELSE toWorker' = Append(toWorker, TranscribeMessage(last'.call))]_vars

\* C36, amended: the same for every transcribe call made while a worker
\* exists (with no worker the call throws whatever the chunk's length).
C36_ShortChunkRejectionWithWorker ==
  [][(last'.op = "transcribe" /\ last'.audio.present /\ workerRef # Null)
       => IF last'.audio.length < MIN_SAMPLES
          THEN /\ ResolvedWith(last'.call, <<>>)
               /\ toWorker' = toWorker
          ELSE /\ toWorker' = Append(toWorker, TranscribeMessage(last'.call))
               /\ promises'[last'.call].state = "pending"]_vars

C36_Witness ==
  /\ last.op = "transcribe"
  /\ workerRef # Null
  /\ last.audio.present
  /\ last.audio.length = MIN_SAMPLES - 1
  /\ ~last.posted
  /\ promises[last.call].state = "resolved"
  /\ promises[last.call].value = <<>>
  /\ last.call > 1
  /\ promises[1].state = "pending"

C38_SpeakerIntegrity ==
  /\ [](\A i \in 1..Len(segmentList) :
         segmentList[i].speaker = 0
           \/ segmentList[i].speaker \in SpeakerIds(speakers))
  /\ [][last'.op = "removeSpeaker"
          => /\ Len(segmentList') = Len(segmentList)
             /\ \A i \in 1..Len(segmentList) :
                  /\ segmentList'[i].id = segmentList[i].id
                  /\ segmentList'[i].speaker =
                       IF segmentList[i].speaker = last'.id
                       THEN 0 ELSE segmentList[i].speaker
             /\ last'.id \notin SpeakerIds(speakers')]_vars

C38_Witness ==
  /\ last.op = "removeSpeaker"
  /\ last.id = 1
  /\ Len(speakers) > 0
  /\ Len(segmentList) = 2
  /\ last.unassigned = {segmentList[1].id}
  /\ segmentList[1].speaker = 0
  /\ segmentList[2].speaker = MaxId(speakers)

\* C39 as stated: at most one write timer is pending; a change of the state
\* cancels the pending write; a write never stores a value the state has
\* left behind; and once the state has been the same for debounceMs and the
\* timeout due by then has run, the stored item is the latest state.
SingleWriteTimer ==
  /\ [](Cardinality(storageTimers) <= 1)
  /\ [](\A t \in storageTimers :
         /\ t.id = timeoutId
         /\ t.value = storedValue
         /\ t.due = storedChangedAt + debounceMs)
  /\ [][last'.op = "setStoredValue"
          => /\ storageTimers \cap storageTimers' = {}
             /\ localStorageItem' = localStorageItem]_vars
  /\ [][localStorageItem' # localStorageItem
          => localStorageItem' = Stringify(storedValue)]_vars

Quiet ==
  /\ timeoutId # 0
  /\ storageClock - storedChangedAt >= debounceMs
  /\ \A t \in storageTimers : t.due > storageClock

====
